---------------------------- MODULE Spec2Model ----------------------------
(***************************************************************************)
(* A model of the PDF annotation editor (brianjrosenthal/pdf-editor).      *)
(*                                                                         *)
(* The repository holds the editor three times: as the single-file bundle  *)
(* src/index.tsx, as the modular application (App.tsx and types.ts,        *)
(* stored after services/pdfService.ts; components/PdfEditor.tsx, stored   *)
(* in src/unnamed/part_001 from line 307; components/TextBox.tsx, stored   *)
(* in src/unnamed/part_002 from line 217), and as the standalone           *)
(* single-component application of src/unnamed/part_000.  The three        *)
(* differ in a few handlers; the variable build says which one is running. *)
(*                                                                         *)
(* Numbers.  The code computes with IEEE doubles.  The model keeps page    *)
(* fractions (x, y: percent of the page box) as integers, so a quotient    *)
(* such as (dx / width) * 100 is taken with \div (the fraction of a        *)
(* percent is dropped).  Output-unit values, which the code obtains by     *)
(* dividing by 100, are kept exactly as numerators over 100: x100 = 30600  *)
(* stands for 306.00 units.  Line spacing fontSize * 1.25 is kept the same *)
(* way: lineHeight100 = 3000 stands for 30.00.                             *)
(*                                                                         *)
(* Text is a sequence of one-character strings, so that trim() can be      *)
(* computed.  An id `overlay-${Date.now()}` is kept as the clock value it  *)
(* is built from (the prefix is constant, the conversion injective).       *)
(***************************************************************************)
EXTENDS Integers, Sequences, FiniteSets, TLC

VARIABLES
  build,        \* "index" (src/index.tsx), "modular" (App/PdfEditor/TextBox)
                \* or "standalone" (src/unnamed/part_000)
  clock,        \* Date.now(), in milliseconds since the session began
  overlays,     \* PdfEditor state: the annotation store, in insertion order
  boxes,        \* the TextBox component instance of each overlay (same order)
  selectedId,   \* PdfEditor state: the selected id, or NoId (null)
  clipboard,    \* PdfEditor state: << >> (null) or <<snapshot>>
  frameQueue,   \* the browser's pending requestAnimationFrame callbacks
  dims,         \* PageItem state: the rendered pixel box {width, height}
  pages,        \* output-unit size of each page of the loaded document
  exportOut,    \* << >>, or <<what the last export run handed to the compositor>>
  app,          \* the file chosen, the document decoded from it, the decodes and
                \* exports under way, and the App state around them (AppShowing)
  hist,         \* observation only: per-box record of the current drag
  lastKey       \* observation only: the keyboard command that ran in the latest
                \* step, NoKey when that step was no keyboard command

vars == <<build, clock, overlays, boxes, selectedId, clipboard, frameQueue,
          dims, pages, exportOut, app, hist, lastKey>>

\* useState(null) of selectedId; a real id is a positive clock value
NoId == 0

NoKey == ""

-----------------------------------------------------------------------------
(* Bounds of the model *)

MaxClock == 2          \* the clock advances at most this far
MaxOverlays == 2       \* the store holds at most this many annotations
MaxExportLen == 2      \* longest store handed to export in SpecExport
MaxPastedX == 22       \* pastes are followed while the copy lands at x <= this
MaxLoads == 2          \* decodes under way at once in SpecApp
MaxExportClicks == 2   \* export commands given in SpecApp
MaxRunning == 2        \* export runs under way at once in SpecApp
MaxAlerts == 2         \* failed exports followed in SpecApp
MaxStarted == 3        \* export runs counted in app.started
MaxAppOverlays == 1    \* annotations placed in SpecApp
MaxSizeSteps == 2      \* size changes followed from a starting size in SpecStyle
MaxPastedY == 102      \* pastes are followed while the copy lands at y <= MaxPastedY
MaxReplacePastedX == 37  \* pastes are followed in SpecReplace while the copy lands at x <= this

-----------------------------------------------------------------------------
(* Program constants *)

MinX == 0              \* Math.max(0, ...) of the drag clamp
MaxX == 95             \* Math.min(..., 95)
MinY == 2              \* Math.max(2, ...)
MaxY == 100            \* Math.min(..., 100)
PasteDelta == 2        \* clipboard.x + 2, clipboard.y + 2
DefaultFontSize == 18  \* addOverlay: fontSize: 18
MinFontSize == 8       \* Math.max(8, overlay.fontSize - 1)
MaxFontSize == 72      \* Math.min(72, overlay.fontSize + 1)
LineHeightRatio100 == 125   \* overlay.fontSize * 1.25, over 100

Builds == {"index", "modular", "standalone"}

FONTS == <<"Helvetica", "Times-Roman", "Courier">>

NewText == <<"N", "e", "w", " ", "T", "e", "x", "t">>
DefaultColor == "#000000"

Min(a, b) == IF a < b THEN a ELSE b
Max(a, b) == IF a > b THEN a ELSE b

-----------------------------------------------------------------------------
(* String.prototype.trim *)

IsSpace(c) == c \in {" ", "\n", "\t"}

RECURSIVE TrimStart(_)
TrimStart(s) ==
  IF s = <<>> THEN s
  ELSE IF IsSpace(Head(s)) THEN TrimStart(Tail(s)) ELSE s

RECURSIVE TrimEnd(_)
TrimEnd(s) ==
  IF s = <<>> THEN s
  ELSE IF IsSpace(s[Len(s)]) THEN TrimEnd(SubSeq(s, 1, Len(s) - 1)) ELSE s

\* A wrong variant of Trim (nothing is stripped), to show that
\* C22_BlankTextNotDrawn tells the two apart
Trim_Identity(s) == s

Trim(s) == TrimEnd(TrimStart(s))

-----------------------------------------------------------------------------
(* services/pdfService.ts and the export routine of src/index.tsx *)

\* Property names every object literal inherits from Object.prototype: a
\* lookup fontMap[name] of one of these yields the inherited member, not
\* undefined.
InheritedKeys == {"constructor", "toString", "valueOf", "hasOwnProperty"}

\* fontMap[overlay.fontFamily]
FontMapLookup(family) ==
  CASE family = "Helvetica" -> "HelveticaFont"
    [] family = "Times-Roman" -> "TimesRomanFont"
    [] family = "Courier" -> "CourierFont"
    [] family \in InheritedKeys -> "ObjectPrototypeMember"
    [] OTHER -> "undefined"

\* fontMap[overlay.fontFamily] || helveticaFont
ResolveFont(family) ==
  IF FontMapLookup(family) = "undefined" THEN "HelveticaFont"
  ELSE FontMapLookup(family)

\* A wrong variant of OutputX100 (the horizontal axis is flipped as well), to
\* show that C30_RoundTrip tells the two apart
OutputX100_Mirrored(x, width) == (100 - x) * width

\* const x = (overlay.x / 100) * width, kept over 100
OutputX100(x, width) == x * width

\* A wrong variant of OutputY100 (no vertical flip), to show that
\* C1_ExportPosition tells the two apart
OutputY100_Unflipped(y, height) == y * height

\* const y = height - ((overlay.y / 100) * height), kept over 100
OutputY100(y, height) == height * 100 - y * height

\* the options object handed to page.drawText
DrawInstruction(o, pageIndex, page) ==
  [ page          |-> pageIndex + 1,
    text          |-> o.text,
    x100          |-> OutputX100(o.x, page.width),
    y100          |-> OutputY100(o.y, page.height),
    size          |-> o.fontSize,
    font          |-> ResolveFont(o.fontFamily),
    color         |-> "rgb(0,0,0)",
    lineHeight100 |-> o.fontSize * LineHeightRatio100,
    src           |-> o ]   \* observation only: the overlay it was made from

\* A wrong variant of DrawLoop (a page index outside the document is moved to
\* the nearest page instead of being skipped), to show that
\* C23_MissingPageSkipped tells the two apart
RECURSIVE DrawLoop_ClampingPage(_, _, _)
DrawLoop_ClampingPage(ovs, pgs, acc) ==
  IF ovs = <<>> THEN acc
  ELSE LET overlay == Head(ovs)
           pageIndex == Max(0, Min(Len(pgs) - 1, overlay.pageNumber - 1))
       IN IF Len(Trim(overlay.text)) > 0
          THEN DrawLoop_ClampingPage(Tail(ovs), pgs,
                 Append(acc, DrawInstruction(overlay, pageIndex, pgs[pageIndex + 1])))
          ELSE DrawLoop_ClampingPage(Tail(ovs), pgs, acc)

\* the loop `for (const overlay of overlays)`: the draw instructions, in order
RECURSIVE DrawLoop(_, _, _)
DrawLoop(ovs, pgs, acc) ==
  IF ovs = <<>> THEN acc
  ELSE LET overlay == Head(ovs)
           pageIndex == overlay.pageNumber - 1
       IN IF pageIndex < 0 \/ pageIndex >= Len(pgs)
          THEN DrawLoop(Tail(ovs), pgs, acc)
          ELSE IF Len(Trim(overlay.text)) > 0
               THEN DrawLoop(Tail(ovs), pgs,
                      Append(acc, DrawInstruction(overlay, pageIndex, pgs[pageIndex + 1])))
               ELSE DrawLoop(Tail(ovs), pgs, acc)

\* exportPdfWithAnnotations(originalBytes, overlays, originalName)
ExportPdfWithAnnotations(ovs, pgs) ==
  [ draws |-> DrawLoop(ovs, pgs, <<>>), store |-> ovs, pages |-> pgs ]

-----------------------------------------------------------------------------
(* PdfEditor: the store operations *)

\* addOverlay / addOverlayAt: the record a place click creates
NewOverlay(now, pageNumber, x, y) ==
  [ id |-> now, pageNumber |-> pageNumber, text |-> NewText, x |-> x, y |-> y,
    fontSize |-> DefaultFontSize, fontFamily |-> "Helvetica",
    color |-> DefaultColor, isNew |-> TRUE ]

\* handleKeyDown, paste: { ...clipboard, id, x: clipboard.x + 2, y: clipboard.y + 2, isNew: true }
PastedOverlay(clip, now) ==
  [clip EXCEPT !.id = now, !.x = clip.x + PasteDelta, !.y = clip.y + PasteDelta,
               !.isNew = TRUE]

\* handleKeyDown, copy: the item of overlays.find(o => o.id === selectedId),
\* as << >> (not found) or <<{ ...item }>>
CopiedSnapshot(ovs, sel) ==
  LET hits == { i \in 1..Len(ovs) : ovs[i].id = sel }
  IN IF hits = {} THEN << >>
     ELSE << ovs[CHOOSE i \in hits : \A j \in hits : i <= j] >>

\* A wrong variant of Merge (an update that also moves the annotation to the
\* next page), to show that C16_IdAndPageImmutable tells the two apart
Merge_MovingPage(o, u) ==
  [ f \in DOMAIN o |-> IF f \in DOMAIN u THEN u[f]
                       ELSE IF f = "pageNumber" THEN o[f] + 1 ELSE o[f] ]

\* { ...o, ...u }: u is a record holding some of the overlay's fields
Merge(o, u) ==
  [ f \in DOMAIN o |-> IF f \in DOMAIN u THEN u[f] ELSE o[f] ]

\* A wrong variant of UpdateOverlay (an update whose id matches nothing lands
\* on the first annotation), to show that C15_StaleUpdateNoOp tells the two apart
UpdateOverlay_Misaddressed(ovs, id, u) ==
  IF ovs = << >> \/ \E i \in 1..Len(ovs) : ovs[i].id = id
  THEN [ i \in 1..Len(ovs) |-> IF ovs[i].id = id THEN Merge(ovs[i], u) ELSE ovs[i] ]
  ELSE [ovs EXCEPT ![1] = Merge(@, u)]

\* updateOverlay: prev.map(o => o.id === id ? { ...o, ...updates } : o)
UpdateOverlay(ovs, id, u) ==
  [ i \in 1..Len(ovs) |-> IF ovs[i].id = id THEN Merge(ovs[i], u) ELSE ovs[i] ]

\* the indexes that prev.filter(o => o.id !== id) keeps
KeptIndexes(ovs, id) == { i \in 1..Len(ovs) : ovs[i].id # id }

\* s restricted to the indexes in keep, order kept (Array.prototype.filter)
RECURSIVE FilterIdx(_, _, _)
FilterIdx(s, keep, i) ==
  IF i > Len(s) THEN <<>>
  ELSE IF i \in keep THEN <<s[i]>> \o FilterIdx(s, keep, i + 1)
       ELSE FilterIdx(s, keep, i + 1)

\* deleteOverlay: prev.filter(o => o.id !== id)
DeleteOverlay(ovs, id) == FilterIdx(ovs, KeptIndexes(ovs, id), 1)

\* overlays.filter(o => o.pageNumber === i + 1): the store's per-page query
ByPage(ovs, p) == FilterIdx(ovs, { i \in 1..Len(ovs) : ovs[i].pageNumber = p }, 1)

\* the ids in the store
Ids(ovs) == { ovs[i].id : i \in 1..Len(ovs) }

-----------------------------------------------------------------------------
(* TextBox: the component instance of one overlay *)

\* A wrong variant of MountBox (no mount effect), to show that
\* C31_EditingEntry tells the two apart
MountBox_Idle(o) ==
  [ isDragging |-> FALSE, isEditing |-> FALSE, tempText |-> o.text,
    dragStartRef |-> [x |-> 0, y |-> 0, startX |-> 0, startY |-> 0],
    rafRef |-> 0 ]

\* useState / useRef initial values; the mount effect opens a new overlay for
\* text entry: if (overlay.isNew) setIsEditing(true)
MountBox(o) ==
  [ isDragging |-> FALSE, isEditing |-> o.isNew, tempText |-> o.text,
    dragStartRef |-> [x |-> 0, y |-> 0, startX |-> 0, startY |-> 0],
    rafRef |-> 0 ]

\* observation of one box's latest drag: the start its pointer-down captured,
\* the last pointer-move it received, the pointer-move of the last callback of
\* it that ran together with the update that callback sent (each << >> when
\* there is none), and the number of position updates applied to its overlay
\* in the latest display frame
NoHist == [ down |-> << >>, lastMove |-> << >>, fired |-> << >>, commits |-> 0 ]

\* document.activeElement is a TEXTAREA: an editing TextBox focuses its textarea
TextEntryFocused(bxs) == \E i \in 1..Len(bxs) : bxs[i].isEditing

\* useEffect(() => setTempText(overlay.text), [overlay.text]) exists in the
\* modular TextBox and in part_000, not in src/index.tsx
SyncTempText(b, bxs, oldOvs, newOvs) ==
  [ i \in 1..Len(bxs) |->
      IF b # "index" /\ oldOvs[i].text # newOvs[i].text
      THEN [bxs[i] EXCEPT !.tempText = newOvs[i].text] ELSE bxs[i] ]

\* A wrong variant of BlurOverlays (the commit leaves isNew alone), to show
\* that C20_BlurCommits tells the two apart
BlurOverlays_KeepingNew(ovs, bxs, i) ==
  UpdateOverlay(ovs, ovs[i].id, [text |-> bxs[i].tempText])

\* textarea onBlur of box i: setIsEditing(false); onUpdate({ text: tempText, isNew: false })
BlurOverlays(ovs, bxs, i) ==
  UpdateOverlay(ovs, ovs[i].id, [text |-> bxs[i].tempText, isNew |-> FALSE])

BlurBoxes(b, ovs, bxs, i) ==
  SyncTempText(b, [bxs EXCEPT ![i].isEditing = FALSE], ovs, BlurOverlays(ovs, bxs, i))

\* Focus leaves the textareas of boxes i..last (a pointer-down elsewhere, or
\* focus() of another element): each editing box runs its onBlur, in store order.
RECURSIVE BlurAllFrom(_, _, _, _, _)
BlurAllFrom(b, ovs, bxs, i, last) ==
  IF i > last THEN [overlays |-> ovs, boxes |-> bxs]
  ELSE IF bxs[i].isEditing
       THEN BlurAllFrom(b, BlurOverlays(ovs, bxs, i), BlurBoxes(b, ovs, bxs, i), i + 1, last)
       ELSE BlurAllFrom(b, ovs, bxs, i + 1, last)

BlurAll(b, ovs, bxs) == BlurAllFrom(b, ovs, bxs, 1, Len(bxs))

\* A TextBox that mounted in editing has not run its focus effect yet: an
\* older textarea still has the focus.  React runs the effect before it handles
\* the next event, so no handler runs in such a state.
FocusPending(bxs) ==
  \E i, j \in 1..Len(bxs) : i < j /\ bxs[i].isEditing /\ bxs[j].isEditing

\* A wrong variant of ClampX (no upper limit), to show that C3_DragClamped
\* tells the two apart
ClampX_NoUpper(v) == Max(MinX, v)

\* Math.min(Math.max(0, v), 95) and Math.min(Math.max(2, v), 100)
ClampX(v) == Min(Max(MinX, v), MaxX)
ClampY(v) == Min(Max(MinY, v), MaxY)

\* ((e.clientX - dragStartRef.current.x) / containerDimensions.width) * 100
DeltaPercent(client, start, extent) == ((client - start) * 100) \div extent

\* the update a frame callback sends: the captured start plus the total delta
DragUpdate(start, cx, cy, box) ==
  [ x |-> ClampX(start.startX + DeltaPercent(cx, start.x, box.width)),
    y |-> ClampY(start.startY + DeltaPercent(cy, start.y, box.height)) ]

\* ((e.clientX - rect.left) / rect.width) * 100 of handlePageClick
ClickPercent(offset, extent) == (offset * 100) \div extent

-----------------------------------------------------------------------------
(* The browser's animation-frame callbacks *)

ZeroStart == [x |-> 0, y |-> 0, startX |-> 0, startY |-> 0]

\* A frame-queue entry is the closure handleMove passed to
\* requestAnimationFrame: the event's clientX/clientY, the containerDimensions
\* of the render that created handleMove, the id its onUpdate addresses, and
\* the component (box: its index in the store) whose dragStartRef it reads when
\* it runs.  When the component has unmounted (box = 0) the ref can no longer
\* change and the entry keeps its last value in start.

\* requestAnimationFrame returns a handle that no pending callback and no
\* rafRef holds
FreshHandle(q, bxs) ==
  LET used == { q[k].handle : k \in 1..Len(q) } \cup { bxs[i].rafRef : i \in 1..Len(bxs) }
  IN CHOOSE h \in 1..(Cardinality(used) + 1) : h \notin used

\* cancelAnimationFrame(handle)
CancelFrame(q, handle) == SelectSeq(q, LAMBDA e : e.handle # handle)

\* if (rafRef.current) cancelAnimationFrame(rafRef.current)
CancelPending(q, box) == IF box.rafRef # 0 THEN CancelFrame(q, box.rafRef) ELSE q

\* the start a callback reads from dragStartRef.current when it runs
StartOf(e, bxs) == IF e.box = 0 THEN e.start ELSE bxs[e.box].dragStartRef

\* one display frame: every pending callback runs, in the order scheduled
RECURSIVE RunFrames(_, _, _, _)
RunFrames(q, ovs, bxs, hs) ==
  IF q = << >> THEN [overlays |-> ovs, hist |-> hs]
  ELSE LET e == Head(q)
           u == DragUpdate(StartOf(e, bxs), e.cx, e.cy,
                           [width |-> e.width, height |-> e.height])
           hs1 == [ i \in 1..Len(hs) |->
                    [hs[i] EXCEPT
                       !.fired = IF i = e.box THEN << [x |-> e.cx, y |-> e.cy, sent |-> u] >>
                                 ELSE @,
                       !.commits = IF ovs[i].id = e.id THEN @ + 1 ELSE @] ]
       IN RunFrames(Tail(q), UpdateOverlay(ovs, e.id, u), bxs, hs1)

\* the entries after the components outside keep have unmounted
Unmount(q, keep, bxs) ==
  [ k \in 1..Len(q) |->
      IF q[k].box = 0 THEN q[k]
      ELSE IF q[k].box \in keep
           THEN [q[k] EXCEPT !.box = Cardinality({ j \in keep : j <= q[k].box })]
           ELSE [q[k] EXCEPT !.box = 0, !.start = bxs[q[k].box].dragStartRef] ]

NoDrag(bxs) == \A i \in 1..Len(bxs) : ~bxs[i].isDragging

-----------------------------------------------------------------------------
(* Inputs *)

Pages == 1..Len(pages)
TextInputs == { <<"H", "i">> }

-----------------------------------------------------------------------------
(* Actions: one per event handler *)

\* Date.now() advances
Tick ==
  /\ clock < MaxClock
  /\ clock' = clock + 1
  /\ lastKey' = NoKey
  /\ UNCHANGED <<build, app, overlays, boxes, selectedId, clipboard, frameQueue,
                 dims, pages, exportOut, hist>>

\* A wrong variant of ClearClick (the click also places an annotation), to
\* show that C19_ClickOnlyClears tells the two apart
ClearClick_Placing ==
  /\ ~FocusPending(boxes)
  /\ NoDrag(boxes)
  /\ selectedId # NoId
  /\ Len(overlays) < MaxOverlays
  /\ LET b == BlurAll(build, overlays, boxes)
         o == NewOverlay(clock, 1, 0, 0)
     IN /\ overlays' = Append(b.overlays, o)
        /\ boxes' = Append(b.boxes, MountBox(o))
  /\ hist' = Append(hist, NoHist)
  /\ selectedId' = NoId
  /\ lastKey' = NoKey
  /\ UNCHANGED <<build, app, clock, clipboard, frameQueue, dims, pages, exportOut>>

\* PageItem.handlePageClick on empty page area while something is selected:
\* setSelectedId(null).  The pointer-down of the click took the focus from any
\* textarea first.
ClearClick ==
  /\ ~FocusPending(boxes)
  /\ NoDrag(boxes)
  /\ selectedId # NoId
  /\ LET b == BlurAll(build, overlays, boxes)
     IN /\ overlays' = b.overlays
        /\ boxes' = b.boxes
  /\ selectedId' = NoId
  /\ lastKey' = NoKey
  /\ UNCHANGED <<build, app, clock, clipboard, frameQueue, dims, pages, exportOut, hist>>

\* PageItem.handlePageClick on empty page area while nothing is selected:
\* addOverlay(pageNumber, x%, y%), at pointer offset (ox, oy) into the page box
PlaceClick(p, ox, oy) ==
  /\ ~FocusPending(boxes)
  /\ NoDrag(boxes)
  /\ selectedId = NoId
  /\ Len(overlays) < MaxOverlays
  /\ LET b == BlurAll(build, overlays, boxes)
         o == NewOverlay(clock, p, ClickPercent(ox, dims.width),
                         ClickPercent(oy, dims.height))
     IN /\ overlays' = Append(b.overlays, o)
        /\ boxes' = Append(b.boxes, MountBox(o))
        /\ selectedId' = o.id
  /\ hist' = Append(hist, NoHist)
  /\ lastKey' = NoKey
  /\ UNCHANGED <<build, app, clock, clipboard, frameQueue, dims, pages, exportOut>>

\* TextBox.handleMouseDown (and startDrag) on the body of box i, not editing
BoxMouseDown(i, cx, cy) ==
  /\ ~FocusPending(boxes)
  /\ i \in 1..Len(boxes)
  /\ NoDrag(boxes)
  /\ ~boxes[i].isEditing
  /\ LET b == BlurAll(build, overlays, boxes)
         start == [x |-> cx, y |-> cy, startX |-> overlays[i].x, startY |-> overlays[i].y]
     IN /\ overlays' = b.overlays
        /\ boxes' = [b.boxes EXCEPT ![i].isDragging = TRUE, ![i].dragStartRef = start]
        /\ hist' = [hist EXCEPT ![i] = [NoHist EXCEPT !.down = <<start>>]]
  /\ selectedId' = overlays[i].id
  /\ lastKey' = NoKey
  /\ UNCHANGED <<build, app, clock, clipboard, frameQueue, dims, pages, exportOut>>

\* A wrong variant of EditingMouseDown (the handler without its isEditing
\* test), to show that C21_DragOnlyFromBody tells the two apart
EditingMouseDown_Dragging(i) ==
  /\ ~FocusPending(boxes)
  /\ i \in 1..Len(boxes)
  /\ NoDrag(boxes)
  /\ boxes[i].isEditing
  /\ boxes' = [boxes EXCEPT ![i].isDragging = TRUE]
  /\ selectedId' = overlays[i].id
  /\ lastKey' = NoKey
  /\ UNCHANGED <<build, app, clock, overlays, clipboard, frameQueue, dims, pages,
                 exportOut, hist>>

\* TextBox.handleMouseDown on box i while it is editing: `if (isEditing) return`
EditingMouseDown(i) ==
  /\ ~FocusPending(boxes)
  /\ i \in 1..Len(boxes)
  /\ NoDrag(boxes)
  /\ boxes[i].isEditing
  /\ UNCHANGED vars

\* A pointer-down on a button of box i's toolbar (the size buttons, the remove
\* button), the press alone: the buttons stop the event, and handleMouseDown
\* returns at `e.target.closest('button')` where it is reached.  The press takes
\* the focus from a textarea that has it.
ButtonMouseDown(i) ==
  /\ ~FocusPending(boxes)
  /\ i \in 1..Len(boxes)
  /\ NoDrag(boxes)
  /\ selectedId = overlays[i].id \/ boxes[i].isEditing
  /\ LET b == BlurAll(build, overlays, boxes)
     IN /\ overlays' = b.overlays
        /\ boxes' = b.boxes
  /\ lastKey' = NoKey
  /\ UNCHANGED <<build, app, clock, selectedId, clipboard, frameQueue, dims, pages,
                 exportOut, hist>>

\* TextBox.handleMove, the window's mousemove listener of the dragging box
MouseMove(cx, cy) ==
  \E i \in 1..Len(boxes) :
    /\ ~FocusPending(boxes)
    /\ boxes[i].isDragging
    /\ LET h == FreshHandle(frameQueue, boxes)
           e == [ handle |-> h, box |-> i, id |-> overlays[i].id, cx |-> cx, cy |-> cy,
                  width |-> dims.width, height |-> dims.height, start |-> ZeroStart ]
       IN /\ frameQueue' = Append(CancelPending(frameQueue, boxes[i]), e)
          /\ boxes' = [boxes EXCEPT ![i].rafRef = h]
    /\ hist' = [hist EXCEPT ![i].lastMove = << [x |-> cx, y |-> cy] >>]
    /\ lastKey' = NoKey
    /\ UNCHANGED <<build, app, clock, overlays, selectedId, clipboard, dims, pages, exportOut>>

\* a display frame: the pending callbacks run, each calling onUpdate
FrameTick ==
  /\ ~FocusPending(boxes)
  /\ frameQueue # << >>
  /\ LET r == RunFrames(frameQueue, overlays, boxes,
                        [ i \in 1..Len(hist) |-> [hist[i] EXCEPT !.commits = 0] ])
     IN /\ overlays' = r.overlays
        /\ hist' = r.hist
  /\ frameQueue' = << >>
  /\ lastKey' = NoKey
  /\ UNCHANGED <<build, app, clock, boxes, selectedId, clipboard, dims, pages, exportOut>>

\* the rafRef handling of handleEnd: the modular TextBox and part_000 cancel
\* the pending callback, src/index.tsx does not
EndFrames(b, q, box) == IF b # "index" THEN CancelPending(q, box) ELSE q

\* TextBox.handleEnd, the window's mouseup listener of the dragging box.  The
\* click that follows bubbles to the PdfEditor container, whose onClick is
\* setSelectedId(null), when it lands inside the editor (click); a release
\* elsewhere sends no click there.
MouseUp(click) ==
  \E i \in 1..Len(boxes) :
    /\ ~FocusPending(boxes)
    /\ boxes[i].isDragging
    /\ boxes' = [boxes EXCEPT ![i].isDragging = FALSE]
    /\ frameQueue' = EndFrames(build, frameQueue, boxes[i])
    /\ selectedId' = IF click THEN NoId ELSE selectedId
    /\ lastKey' = NoKey
    /\ UNCHANGED <<build, app, clock, overlays, clipboard, dims, pages, exportOut, hist>>

\* TextBox onDoubleClick: setIsEditing(true).  The two clicks before it left the
\* selection cleared and no textarea focused.
DoubleClick(i) ==
  /\ ~FocusPending(boxes)
  /\ i \in 1..Len(boxes)
  /\ NoDrag(boxes)
  /\ selectedId = NoId
  /\ ~TextEntryFocused(boxes)
  /\ boxes' = [boxes EXCEPT ![i].isEditing = TRUE]
  /\ lastKey' = NoKey
  /\ UNCHANGED <<build, app, clock, overlays, selectedId, clipboard, frameQueue,
                 dims, pages, exportOut, hist>>

\* textarea onChange: setTempText(e.target.value)
TypeText(i, t) ==
  /\ ~FocusPending(boxes)
  /\ i \in 1..Len(boxes)
  /\ boxes[i].isEditing
  /\ boxes[i].tempText # t
  /\ boxes' = [boxes EXCEPT ![i].tempText = t]
  /\ lastKey' = NoKey
  /\ UNCHANGED <<build, app, clock, overlays, selectedId, clipboard, frameQueue,
                 dims, pages, exportOut, hist>>

\* textarea onBlur of box i (Enter, or focus lost to the window)
Blur(i) ==
  /\ ~FocusPending(boxes)
  /\ i \in 1..Len(boxes)
  /\ boxes[i].isEditing
  /\ overlays' = BlurOverlays(overlays, boxes, i)
  /\ boxes' = BlurBoxes(build, overlays, boxes, i)
  /\ lastKey' = NoKey
  /\ UNCHANGED <<build, app, clock, selectedId, clipboard, frameQueue, dims, pages,
                 exportOut, hist>>

\* The toolbar of box i can be used: it is rendered while
\* (isSelected || isEditing) && !isDragging, and the pointer-down on one of its
\* controls takes the focus from the textarea, which ends isEditing.
ToolbarUsable(i) ==
  /\ ~FocusPending(boxes)
  /\ i \in 1..Len(boxes)
  /\ NoDrag(boxes)
  /\ selectedId = overlays[i].id

\* <select> onChange: onUpdate({ fontFamily: e.target.value })
FontFamilyChange(i, family) ==
  /\ ToolbarUsable(i)
  /\ overlays[i].fontFamily # family
  /\ LET b == BlurAll(build, overlays, boxes)
     IN /\ overlays' = UpdateOverlay(b.overlays, overlays[i].id, [fontFamily |-> family])
        /\ boxes' = b.boxes
  /\ lastKey' = NoKey
  /\ UNCHANGED <<build, app, clock, selectedId, clipboard, frameQueue, dims, pages,
                 exportOut, hist>>

\* A wrong variant of SteppedFontSize (no clamp), to show that
\* C28_FontSizeInRange tells the two apart
SteppedFontSize_Unclamped(size, up) == IF up THEN size + 1 ELSE size - 1

\* Math.max(8, overlay.fontSize - 1) and Math.min(72, overlay.fontSize + 1)
SteppedFontSize(size, up) ==
  IF up THEN Min(MaxFontSize, size + 1) ELSE Max(MinFontSize, size - 1)

\* the font size buttons' onClick: onUpdate({ fontSize: ... })
FontSizeStep(i, up) ==
  /\ ToolbarUsable(i)
  /\ LET b == BlurAll(build, overlays, boxes)
     IN /\ overlays' = UpdateOverlay(b.overlays, overlays[i].id,
                         [fontSize |-> SteppedFontSize(overlays[i].fontSize, up)])
        /\ boxes' = b.boxes
  /\ lastKey' = NoKey
  /\ UNCHANGED <<build, app, clock, selectedId, clipboard, frameQueue, dims, pages,
                 exportOut, hist>>

\* deleteOverlay's effect on the selection: the modular PdfEditor clears it when
\* the deleted id is selected, the inline deleteOverlay of src/index.tsx does not
SelectionAfterDelete(b, sel, id) ==
  IF b = "modular" /\ sel = id THEN NoId ELSE sel

\* the store, the components and the pending callbacks once the overlays with
\* this id are gone
Removal(ovs, bxs, hs, q, id) ==
  LET keep == KeptIndexes(ovs, id)
  IN [ overlays |-> FilterIdx(ovs, keep, 1), boxes |-> FilterIdx(bxs, keep, 1),
       hist |-> FilterIdx(hs, keep, 1), frameQueue |-> Unmount(q, keep, bxs) ]

\* the remove button's onClick: onDelete() -> deleteOverlay(overlay.id)
RemoveButton(i) ==
  /\ ~FocusPending(boxes)
  /\ i \in 1..Len(boxes)
  /\ NoDrag(boxes)
  /\ LET b == BlurAll(build, overlays, boxes)
         r == Removal(b.overlays, b.boxes, hist, frameQueue, overlays[i].id)
     IN /\ overlays' = r.overlays
        /\ boxes' = r.boxes
        /\ hist' = r.hist
        /\ frameQueue' = r.frameQueue
  /\ selectedId' = SelectionAfterDelete(build, selectedId, overlays[i].id)
  /\ lastKey' = NoKey
  /\ UNCHANGED <<build, app, clock, clipboard, dims, pages, exportOut>>

\* The focus test of the copy and paste branches of handleKeyDown: part_000
\* has `&& !isInput` there, src/index.tsx and the modular PdfEditor do not look
\* at the focused element
ClipboardKeysActive(b, bxs) == b = "standalone" => ~TextEntryFocused(bxs)

\* handleKeyDown, Ctrl/Cmd+C: `... && e.key === 'c' && selectedId`
KeyCopy ==
  /\ ~FocusPending(boxes)
  /\ IF /\ selectedId # NoId
        /\ ClipboardKeysActive(build, boxes)
        /\ CopiedSnapshot(overlays, selectedId) # << >>
     THEN clipboard' = CopiedSnapshot(overlays, selectedId) /\ lastKey' = "c"
     ELSE UNCHANGED <<clipboard, lastKey>>
  /\ UNCHANGED <<build, app, clock, overlays, boxes, selectedId, frameQueue, dims,
                 pages, exportOut, hist>>

\* handleKeyDown, Ctrl/Cmd+V: `... && e.key === 'v' && clipboard`.  The pasted
\* overlay's TextBox mounts in editing (its mount effect); its focus effect is
\* FocusEffect below.
KeyPaste ==
  /\ ~FocusPending(boxes)
  /\ Len(overlays) < MaxOverlays
  /\ IF clipboard # << >> /\ ClipboardKeysActive(build, boxes)
     THEN LET o == PastedOverlay(clipboard[1], clock)
          IN /\ overlays' = Append(overlays, o)
             /\ boxes' = Append(boxes, MountBox(o))
             /\ hist' = Append(hist, NoHist)
             /\ selectedId' = o.id
             /\ lastKey' = "v"
     ELSE UNCHANGED <<overlays, boxes, hist, selectedId, lastKey>>
  /\ UNCHANGED <<build, app, clock, clipboard, frameQueue, dims, pages, exportOut>>

\* useEffect(() => { if (isEditing && inputRef.current) inputRef.current.focus() },
\* [isEditing]) of the TextBox a paste mounted: the textarea that had the focus
\* loses it and runs its onBlur
FocusEffect ==
  /\ FocusPending(boxes)
  /\ LET b == BlurAllFrom(build, overlays, boxes, 1, Len(boxes) - 1)
     IN /\ overlays' = b.overlays
        /\ boxes' = b.boxes
  /\ lastKey' = NoKey
  /\ UNCHANGED <<build, app, clock, selectedId, clipboard, frameQueue, dims, pages,
                 exportOut, hist>>

\* A wrong variant of DeleteActive (the focused element is not looked at), to
\* show that C10_KeyboardDelete tells the two apart
DeleteActive_NoFocusCheck(sel, bxs) == sel # NoId

\* handleKeyDown, Delete or Backspace: runs when an id is selected and the
\* focused element (document.activeElement / e.target) is no INPUT or TEXTAREA
DeleteActive(sel, bxs) == sel # NoId /\ ~TextEntryFocused(bxs)

\* A wrong variant of KeyDelete (a clipboard that lives and dies with its source
\* annotation), to show that C8_ClipboardSnapshot tells the two apart
KeyDelete_DroppingClipboard ==
  /\ ~FocusPending(boxes)
  /\ IF DeleteActive(selectedId, boxes)
     THEN LET r == Removal(overlays, boxes, hist, frameQueue, selectedId)
          IN /\ overlays' = r.overlays
             /\ boxes' = r.boxes
             /\ hist' = r.hist
             /\ frameQueue' = r.frameQueue
             /\ selectedId' = NoId
             /\ lastKey' = "Delete"
             /\ clipboard' = IF clipboard # << >> /\ clipboard[1].id = selectedId
                             THEN << >> ELSE clipboard
     ELSE UNCHANGED <<overlays, boxes, hist, frameQueue, selectedId, lastKey, clipboard>>
  /\ UNCHANGED <<build, app, clock, dims, pages, exportOut>>

KeyDelete ==
  /\ ~FocusPending(boxes)
  /\ IF DeleteActive(selectedId, boxes)
     THEN LET r == Removal(overlays, boxes, hist, frameQueue, selectedId)
          IN /\ overlays' = r.overlays
             /\ boxes' = r.boxes
             /\ hist' = r.hist
             /\ frameQueue' = r.frameQueue
             /\ selectedId' = NoId
             /\ lastKey' = "Delete"
     ELSE UNCHANGED <<overlays, boxes, hist, frameQueue, selectedId, lastKey>>
  /\ UNCHANGED <<build, app, clock, clipboard, dims, pages, exportOut>>

\* What a finished load leaves of the selection: handleFileUpload of part_000
\* ends with setSelectedId(null); loadPdf of src/index.tsx and of the modular
\* PdfEditor sets the document, the page count and the empty store only
SelectionAfterLoad(b, sel) == IF b = "standalone" THEN NoId ELSE sel

\* What a finished decode does to the editor: `if (active) { setPdfDoc(pdf);
\* setNumPages(pdf.numPages); setOverlays([]); }`.  Every TextBox unmounts with
\* the store.
LoadStore(doc) ==
  /\ ~FocusPending(boxes)
  /\ overlays' = << >>
  /\ boxes' = << >>
  /\ hist' = << >>
  /\ frameQueue' = Unmount(frameQueue, {}, boxes)
  /\ selectedId' = SelectionAfterLoad(build, selectedId)
  /\ pages' = doc
  /\ lastKey' = NoKey
  /\ UNCHANGED <<build, clock, clipboard, exportOut>>

\* Document replacement in one step: a file with pages doc is chosen and its
\* decode finishes, at the scale and page box in effect
LoadPdf(doc) ==
  /\ LoadStore(doc)
  /\ UNCHANGED <<dims, app>>

-----------------------------------------------------------------------------
(* App: the file chosen, its decode, and the export runs *)

\* useState(null) of pdfInfo and pdfDoc; a file is a positive number
NoDoc == 0

\* The files a user chooses: 1 and 2 are PDF documents, 3 is a file whose
\* bytes are empty or no PDF
Documents == {1, 2, 3}

Decodable(d) == d \in {1, 2}

\* the pages of a file, in output units, as pdf.js and pdf-lib find them
DocPages(d) ==
  IF d = 1 THEN << [width |-> 612, height |-> 792] >>
  ELSE IF d = 2 THEN << [width |-> 612, height |-> 792], [width |-> 842, height |-> 595] >>
  ELSE << >>

\* useState(1.5) of renderScale and the limits of updateScale, in tenths
DefaultScale == 15
MinScale == 6
MaxScale == 15

\* the App and PdfEditor state before a file is chosen
AppEmpty ==
  [ pdfInfo        |-> NoDoc,       \* the file chosen: its name and bytes
    pdfDoc         |-> NoDoc,       \* the file whose decoded document is shown
    numPages       |-> 0,
    loading        |-> << >>,       \* the decodes under way that can still finish
    triggerExport  |-> 0,           \* the export commands given so far
    isExporting    |-> FALSE,
    running        |-> << >>,       \* the export runs under way: [doc, store]
    alerts         |-> 0,           \* the `Export failed` alerts shown so far
    started        |-> 0,           \* the export runs started so far, counted
                                    \* up to MaxStarted
    renderScale    |-> DefaultScale,
    depsChanged    |-> FALSE,       \* modular PdfEditor: App rendered, or the store
                                    \* was set anew, since the export effect ran
    effectOverlays |-> << >> ]      \* modular PdfEditor: the store the export
                                    \* effect last ran with

\* the state with this document chosen, decoded and shown
AppShowing(pgs) ==
  LET d == CHOOSE f \in Documents : DocPages(f) = pgs
  IN [AppEmpty EXCEPT !.pdfInfo = d, !.pdfDoc = d, !.numPages = Len(pgs)]

Remove(q, k) == SubSeq(q, 1, k - 1) \o SubSeq(q, k + 1, Len(q))

\* Math.min(1.5, Math.max(0.6, (clientWidth - 48) / 800)), in tenths
ScaleOf(clientWidth) == Min(MaxScale, Max(MinScale, ((clientWidth - 48) * 10) \div 800))

\* page.getViewport({ scale }): the pixel box of a page (whole pixels)
Viewport(page, scale) ==
  [ width |-> (page.width * scale) \div 10, height |-> (page.height * scale) \div 10 ]

\* the editor container is mounted: PdfEditor is rendered once pdfInfo is set,
\* the <main> of part_000 shows the editor once pdfDoc is set.  The export
\* button is rendered under the same condition.
EditorMounted == IF build = "standalone" THEN app.pdfDoc # NoDoc ELSE app.pdfInfo # NoDoc

\* a change of App state or a fresh store array makes the export effect of the
\* modular PdfEditor run again (its dependencies onExportStart and onExportEnd
\* are arrow functions App creates on every render); the effect of
\* src/index.tsx depends on triggerExport alone
Rerendered(flag) == flag \/ (build = "modular" /\ app.triggerExport > 0)

\* handleFileUpload once file.arrayBuffer() has resolved: setPdfInfo, and the
\* decode of the bytes starts.  In PdfEditor the effect on [pdfInfo] starts it
\* and its cleanup sets the earlier decode's `active` to false; part_000 awaits
\* it in handleFileUpload itself, with no such flag.
ChooseFile(d) ==
  /\ Len(app.loading) < MaxLoads
  /\ app' = [app EXCEPT !.pdfInfo = d,
                        !.loading = IF build = "standalone" THEN Append(@, d) ELSE <<d>>,
                        !.depsChanged = Rerendered(@)]
  /\ lastKey' = NoKey
  /\ UNCHANGED <<build, clock, overlays, boxes, selectedId, clipboard, frameQueue,
                 dims, pages, exportOut, hist>>

\* `const pdf = await loadingTask.promise` resolves: the document, the page
\* count and the empty store are set, and the pages render at the scale in effect
DecodeOk(k) ==
  /\ k \in 1..Len(app.loading)
  /\ Decodable(app.loading[k])
  /\ LET d == app.loading[k]
     IN /\ LoadStore(DocPages(d))
        /\ dims' = Viewport(DocPages(d)[1], app.renderScale)
        /\ app' = [app EXCEPT !.pdfDoc = d, !.numPages = Len(DocPages(d)),
                              !.loading = Remove(@, k), !.depsChanged = Rerendered(@)]

\* A wrong variant of DecodeFail (the failed load empties the store), to show
\* that C25_DecodeFailureKeepsState tells the two apart
DecodeFail_ClearingStore(k) ==
  /\ k \in 1..Len(app.loading)
  /\ ~Decodable(app.loading[k])
  /\ LoadStore(pages)
  /\ app' = [app EXCEPT !.loading = Remove(@, k)]
  /\ UNCHANGED dims

\* loadingTask.promise rejects: `catch (error) { console.error(...) }` in
\* PdfEditor, an unhandled rejection of handleFileUpload in part_000
DecodeFail(k) ==
  /\ k \in 1..Len(app.loading)
  /\ ~Decodable(app.loading[k])
  /\ app' = [app EXCEPT !.loading = Remove(@, k)]
  /\ lastKey' = NoKey
  /\ UNCHANGED <<build, clock, overlays, boxes, selectedId, clipboard, frameQueue,
                 dims, pages, exportOut, hist>>

\* runExport / handleExport up to its first await: onExportStart() or
\* setIsExporting(true), and the call gets pdfInfo.bytes and the overlays of
\* the render it was created in
StartRun(a, ovs) ==
  [a EXCEPT !.running = Append(@, [doc |-> a.pdfInfo, store |-> ovs]),
            !.started = Min(@ + 1, MaxStarted),
            !.isExporting = TRUE]

\* The export button (rendered with the editor, disabled while isExporting).
\* src/index.tsx: setTriggerExport(v => v + 1), and the effect on
\* [triggerExport] starts the run; part_000: handleExport starts it; the
\* modular App: handleExport sets the trigger and the effect is ExportEffect.
ExportClick ==
  /\ EditorMounted
  /\ ~app.isExporting
  /\ app.triggerExport < MaxExportClicks
  /\ app' = IF build = "modular"
            THEN [app EXCEPT !.triggerExport = @ + 1, !.depsChanged = TRUE]
            ELSE StartRun([app EXCEPT !.triggerExport = @ + 1], overlays)
  /\ lastKey' = NoKey
  /\ UNCHANGED <<build, clock, overlays, boxes, selectedId, clipboard, frameQueue,
                 dims, pages, exportOut, hist>>

\* the export effect of the modular PdfEditor has to run: one of
\* [triggerExport, overlays, pdfInfo, onExportStart, onExportEnd] changed
EffectDue ==
  /\ build = "modular"
  /\ app.pdfInfo # NoDoc
  /\ app.triggerExport > 0
  /\ app.depsChanged \/ overlays # app.effectOverlays

\* The export effect of the modular PdfEditor: `if (triggerExport > 0 &&
\* pdfInfo) runExport()`.  onExportStart() renders App again when it changes
\* isExporting.
ExportEffect ==
  /\ EffectDue
  /\ Len(app.running) < MaxRunning
  /\ app' = [StartRun(app, overlays) EXCEPT !.depsChanged = ~app.isExporting,
                                            !.effectOverlays = overlays]
  /\ lastKey' = NoKey
  /\ UNCHANGED <<build, clock, overlays, boxes, selectedId, clipboard, frameQueue,
                 dims, pages, exportOut, hist>>

\* An export run ends.  ok: the compositor loaded the bytes, drew and saved, and
\* the download started.  Not ok: exportPdfWithAnnotations threw (empty bytes,
\* PDFDocument.load, embedFont or save), `catch` shows the alert.  Either way
\* `finally` runs onExportEnd() / setIsExporting(false).
ExportFinish(k, ok) ==
  /\ k \in 1..Len(app.running)
  /\ ok => Decodable(app.running[k].doc)
  /\ ~ok => app.alerts < MaxAlerts
  /\ exportOut' = IF ok THEN << ExportPdfWithAnnotations(app.running[k].store,
                                                        DocPages(app.running[k].doc)) >>
                  ELSE exportOut
  /\ app' = [app EXCEPT !.running = Remove(@, k), !.isExporting = FALSE,
                        !.alerts = IF ok THEN @ ELSE @ + 1,
                        !.depsChanged = @ \/ (build = "modular" /\ app.isExporting)]
  /\ lastKey' = NoKey
  /\ UNCHANGED <<build, clock, overlays, boxes, selectedId, clipboard, frameQueue,
                 dims, pages, hist>>

\* A wrong variant of ScaleChange (the stored fractions are rescaled with the
\* page box), to show that C27_ScaleIndependence tells the two apart
ScaleChange_Rescaling(clientWidth) ==
  /\ EditorMounted
  /\ ScaleOf(clientWidth) # app.renderScale
  /\ app' = [app EXCEPT !.renderScale = ScaleOf(clientWidth)]
  /\ dims' = IF pages = << >> THEN dims ELSE Viewport(pages[1], ScaleOf(clientWidth))
  /\ overlays' = [ i \in 1..Len(overlays) |->
                     [overlays[i] EXCEPT !.x = (@ * ScaleOf(clientWidth)) \div app.renderScale] ]
  /\ lastKey' = NoKey
  /\ UNCHANGED <<build, clock, boxes, selectedId, clipboard, frameQueue,
                 pages, exportOut, hist>>

\* updateScale on a window resize: setRenderScale; the render effect of each
\* PageItem (on [pdfDoc, pageNumber, scale]) cancels the render under way,
\* renders the page at the new scale and sets its dimensions
ScaleChange(clientWidth) ==
  /\ EditorMounted
  /\ ScaleOf(clientWidth) # app.renderScale
  /\ app' = [app EXCEPT !.renderScale = ScaleOf(clientWidth)]
  /\ dims' = IF pages = << >> THEN dims ELSE Viewport(pages[1], ScaleOf(clientWidth))
  /\ lastKey' = NoKey
  /\ UNCHANGED <<build, clock, overlays, boxes, selectedId, clipboard, frameQueue,
                 pages, exportOut, hist>>

-----------------------------------------------------------------------------
(* The editor: a document is loaded and its pages are rendered *)

ClickXs == {40}        \* pointer offsets of a place click into the page box
ClickYs == {100}
DownAt == {0}          \* clientX = clientY of a pointer-down on a box
Families == {"Courier"}
LoadDocuments == { << [width |-> 612, height |-> 792] >> }   \* the files chosen

Init ==
  /\ build \in Builds
  /\ lastKey = NoKey
  /\ clock = 1
  /\ overlays = << >>
  /\ boxes = << >>
  /\ hist = << >>
  /\ selectedId = NoId
  /\ clipboard = << >>
  /\ frameQueue = << >>
  /\ dims = [width |-> 200, height |-> 200]
  /\ pages = << [width |-> 612, height |-> 792] >>
  /\ exportOut = << >>
  /\ app = AppShowing(pages)

Next ==
  \/ Tick
  \/ ClearClick
  \/ \E p \in Pages, ox \in ClickXs, oy \in ClickYs : PlaceClick(p, ox, oy)
  \/ \E i \in 1..Len(boxes), c \in DownAt : BoxMouseDown(i, c, c)
  \/ \E i \in 1..Len(boxes) : EditingMouseDown(i)
  \/ \E i \in 1..Len(boxes) : ButtonMouseDown(i)
  \/ \E click \in BOOLEAN : MouseUp(click)
  \/ \E i \in 1..Len(boxes) : DoubleClick(i)
  \/ \E i \in 1..Len(boxes), t \in TextInputs : TypeText(i, t)
  \/ \E i \in 1..Len(boxes) : Blur(i)
  \/ \E i \in 1..Len(boxes), f \in Families : FontFamilyChange(i, f)
  \/ \E i \in 1..Len(boxes) : RemoveButton(i)
  \/ FocusEffect
  \/ KeyCopy
  \/ /\ clipboard # << >> => clipboard[1].x + PasteDelta <= MaxPastedX
     /\ KeyPaste
  \/ KeyDelete
  \/ \E doc \in LoadDocuments : LoadPdf(doc)

Spec == Init /\ [][Next]_vars

-----------------------------------------------------------------------------
(* Export as a function of the store and the document: SpecExport *)

\* The export effect of PdfEditor: exportPdfWithAnnotations(pdfInfo.bytes,
\* overlays, pdfInfo.name) on the store as it is
Export ==
  /\ ~FocusPending(boxes)
  /\ exportOut' = << ExportPdfWithAnnotations(overlays, pages) >>
  /\ lastKey' = NoKey
  /\ UNCHANGED <<build, app, clock, overlays, boxes, selectedId, clipboard, frameQueue,
                 dims, pages, hist>>

\* The overlays handed to export: one base overlay and its variations in one
\* field each.  fontFamily is typed FontType, a type erased at run time: the
\* fallback of the font lookup is there for names outside FONTS.
ExportBase ==
  [ id |-> 1, pageNumber |-> 1, text |-> <<"H", "i">>, x |-> 50, y |-> 50,
    fontSize |-> 24, fontFamily |-> "Courier", color |-> DefaultColor, isNew |-> FALSE ]

ExportSamples ==
  {ExportBase}
  \cup { [ExportBase EXCEPT !.x = v[1], !.y = v[2]] : v \in {<<0, 2>>, <<95, 100>>, <<10, 25>>} }
  \cup { [ExportBase EXCEPT !.pageNumber = n] : n \in {0, 2, 3} }
  \cup { [ExportBase EXCEPT !.text = t] : t \in {<< >>, <<" ", "\n">>, <<" ", "a", " ">>} }
  \cup { [ExportBase EXCEPT !.fontSize = n] : n \in {MinFontSize, MaxFontSize} }
  \cup { [ExportBase EXCEPT !.fontFamily = f] :
           f \in {"Helvetica", "Times-Roman", "Arial", "", "constructor"} }

RECURSIVE SeqsUpTo(_, _)
SeqsUpTo(S, n) ==
  IF n = 0 THEN {<< >>}
  ELSE LET shorter == SeqsUpTo(S, n - 1)
       IN shorter \cup { Append(q, e) : q \in shorter, e \in S }

ExportDocuments ==
  { << [width |-> 612, height |-> 792] >>,
    << [width |-> 612, height |-> 792], [width |-> 842, height |-> 595] >> }

InitExport ==
  /\ build \in Builds
  /\ lastKey = NoKey
  /\ overlays \in { [ i \in 1..Len(q) |-> [q[i] EXCEPT !.id = i] ] :
                      q \in SeqsUpTo(ExportSamples, MaxExportLen) }
  /\ clock = Len(overlays) + 1
  /\ boxes = [ i \in 1..Len(overlays) |-> MountBox(overlays[i]) ]
  /\ hist = [ i \in 1..Len(overlays) |-> NoHist ]
  /\ selectedId = NoId
  /\ clipboard = << >>
  /\ frameQueue = << >>
  /\ dims = [width |-> 200, height |-> 200]
  /\ pages \in ExportDocuments
  /\ exportOut = << >>
  /\ app = AppShowing(pages)

NextExport == Export

SpecExport == InitExport /\ [][NextExport]_vars

\* the draw instructions of the export that ran, if one did
Draws == IF exportOut = << >> THEN {} ELSE { exportOut[1].draws[j] : j \in 1..Len(exportOut[1].draws) }

PageOf(d) == exportOut[1].pages[d.page]

\* C1: every annotation that export draws on a page of output size W x H is
\* drawn at x = (xFraction/100)*W and y = H - (yFraction/100)*H (both kept over
\* 100); an annotation at (50, 50) on a 612 x 792 page is drawn at (306, 396).
C1_ExportPosition ==
  \A d \in Draws :
    /\ d.x100 = d.src.x * PageOf(d).width
    /\ d.y100 = 100 * PageOf(d).height - d.src.y * PageOf(d).height
    /\ (d.src.x = 50 /\ d.src.y = 50 /\ PageOf(d) = [width |-> 612, height |-> 792])
         => (d.x100 = 30600 /\ d.y100 = 39600)

\* an export drew an annotation at (50, 50) on a 612 x 792 page at (306, 396),
\* and one off the centre line, where the flip shows
C1_Witness ==
  /\ \E d \in Draws : d.src.x = 50 /\ d.src.y = 50 /\ d.x100 = 30600 /\ d.y100 = 39600
  /\ \E d \in Draws : d.src.y = 25 /\ d.y100 = 59400

\* the font the claim expects for a family
ExpectedFont(family) ==
  CASE family = "Helvetica" -> "HelveticaFont"
    [] family = "Times-Roman" -> "TimesRomanFont"
    [] family = "Courier" -> "CourierFont"
    [] OTHER -> "HelveticaFont"

\* C2: every draw instruction carries the annotation's text unchanged, size
\* equal to the stored fontSize, line spacing fontSize * 1.25 (over 100:
\* fontSize * 125) and the embedded font of fontFamily, Helvetica when the
\* family is none of the three; fontSize 24 with Courier gives 24, Courier, 30.
C2_DrawStyle ==
  \A d \in Draws :
    /\ d.text = d.src.text
    /\ d.size = d.src.fontSize
    /\ d.lineHeight100 = d.src.fontSize * 125
    /\ d.font = ExpectedFont(d.src.fontFamily)
    /\ (d.src.fontSize = 24 /\ d.src.fontFamily = "Courier")
         => (d.size = 24 /\ d.font = "CourierFont" /\ d.lineHeight100 = 3000)

-----------------------------------------------------------------------------
(* Dragging: SpecDrag.  The store holds committed annotations (placed or     *)
(* pasted earlier, text entry finished); the pointer drags them, display     *)
(* frames run, and the selected one can be deleted from the keyboard.        *)

DragBase ==
  [ id |-> 1, pageNumber |-> 1, text |-> <<"H", "i">>, x |-> 50, y |-> 50,
    fontSize |-> DefaultFontSize, fontFamily |-> "Helvetica", color |-> DefaultColor,
    isNew |-> FALSE ]

\* one annotation; one placed by a click at the page's top right (handlePageClick
\* accepts every fraction in [0, 100]); two at the same position; and an
\* annotation with a pasted copy that got the same id (both created within
\* one clock millisecond)
DragStores ==
  { << DragBase >>,
    << [DragBase EXCEPT !.x = 97, !.y = 1] >>,
    << DragBase, [DragBase EXCEPT !.id = 2] >>,
    << DragBase, PastedOverlay(DragBase, DragBase.id) >> }

PageBoxes == { [width |-> 200, height |-> 200], [width |-> 100, height |-> 100] }

DragDownAt == {100}
DragMoveTo == {200, -1000}

InitDrag ==
  /\ build \in Builds
  /\ lastKey = NoKey
  /\ clock = 3
  /\ overlays \in { [ i \in 1..Len(st) |-> [st[i] EXCEPT !.isNew = FALSE] ] : st \in DragStores }
  /\ boxes = [ i \in 1..Len(overlays) |-> MountBox(overlays[i]) ]
  /\ hist = [ i \in 1..Len(overlays) |-> NoHist ]
  /\ selectedId = NoId
  /\ clipboard = << >>
  /\ frameQueue = << >>
  /\ dims \in PageBoxes
  /\ pages = << [width |-> 612, height |-> 792] >>
  /\ exportOut = << >>
  /\ app = AppShowing(pages)

NextDrag ==
  \/ \E i \in 1..Len(boxes), c \in DragDownAt : BoxMouseDown(i, c, c)
  \/ \E c \in DragMoveTo : MouseMove(c, c)
  \/ FrameTick
  \/ \E click \in BOOLEAN : MouseUp(click)
  \/ KeyDelete

SpecDrag == InitDrag /\ [][NextDrag]_vars

\* the overlays of the store whose id no other overlay of the store has
UniqueId(ovs, i) == \A j \in 1..Len(ovs) : ovs[j].id = ovs[i].id => j = i

Pos(o) == [x |-> o.x, y |-> o.y]

\* C3: every position that a drag update commits to the store has x in
\* [0, 95] and y in [2, 100], whatever the start position, the pointer
\* position and the page pixel size: a step in which a display frame ran
\* leaves every annotation whose position it changed inside that range, and
\* every update a callback sent lies inside it.
C3_DragClamped ==
  /\ [][ (frameQueue # << >> /\ frameQueue' = << >> /\ Len(overlays') = Len(overlays))
           => \A i \in 1..Len(overlays) :
                Pos(overlays'[i]) # Pos(overlays[i])
                  => (overlays'[i].x \in 0..95 /\ overlays'[i].y \in 2..100) ]_vars
  /\ [](\A i \in 1..Len(hist) : \A k \in 1..Len(hist[i].fired) :
          hist[i].fired[k].sent.x \in 0..95 /\ hist[i].fired[k].sent.y \in 2..100)

\* a drag that began at (97, 1), outside the clamp range, with the pointer
\* taken far beyond the page's top left, was committed at (0, 2)
C3_Witness ==
  \E i \in 1..Len(overlays) :
    /\ hist[i].down # << >> /\ hist[i].fired # << >>
    /\ hist[i].down[1].startX = 97 /\ hist[i].down[1].startY = 1
    /\ hist[i].fired[1].x = -1000
    /\ Pos(overlays[i]) = [x |-> 0, y |-> 2]

\* the position a drag that began with start s commits for the pointer at m
Committed(s, m) == DragUpdate(s, m.x, m.y, dims)

\* box i has an ended drag that received a move, and no callback is pending
DragSettled(i) ==
  /\ ~boxes[i].isDragging
  /\ hist[i].down # << >>
  /\ hist[i].lastMove # << >>
  /\ frameQueue = << >>

\* C4: drag determinism.  Two drags with the same start pointer position, the
\* same start fraction position and the same page box whose pointer-moves end
\* at the same final pointer position leave the same stored position, however
\* many moves there were and however they were coalesced; and each update a
\* callback sent is the captured start plus the total delta.
C4_DragDeterminism ==
  /\ \A i, j \in 1..Len(overlays) :
       (/\ DragSettled(i) /\ DragSettled(j)
        /\ hist[i].down = hist[j].down
        /\ hist[i].lastMove = hist[j].lastMove)
         => Pos(overlays[i]) = Pos(overlays[j])
  /\ \A i \in 1..Len(overlays) :
       (hist[i].down # << >> /\ hist[i].fired # << >>)
         => hist[i].fired[1].sent = Committed(hist[i].down[1], hist[i].fired[1])

\* The absolute recompute alone: holds in both builds
C4_AbsoluteRecompute ==
  \A i \in 1..Len(overlays) :
    (hist[i].down # << >> /\ hist[i].fired # << >>)
      => /\ hist[i].fired[1].sent = Committed(hist[i].down[1], hist[i].fired[1])
         /\ (UniqueId(overlays, i) /\ \A k \in 1..Len(frameQueue) : frameQueue[k].id # overlays[i].id)
              => Pos(overlays[i]) = hist[i].fired[1].sent

\* C5: the final pointer-move before a pointer-up is never dropped.  For every
\* drag with at least one pointer-move, once pointer-up has been handled and
\* no frame callback is pending, the stored position of the annotation is the
\* clamped position computed from the last pointer-move received.
C5_FinalMoveKept ==
  \A i \in 1..Len(overlays) :
    DragSettled(i) => Pos(overlays[i]) = Committed(hist[i].down[1], hist[i].lastMove[1])

\* C5 in the build of src/index.tsx, whose handleEnd leaves the pending callback
\* alone, for annotations with an id of their own
C5_FinalMoveKeptIndex ==
  \A i \in 1..Len(overlays) :
    (build = "index" /\ UniqueId(overlays, i) /\ DragSettled(i))
      => Pos(overlays[i]) = Committed(hist[i].down[1], hist[i].lastMove[1])

\* the frame callbacks pending for the id of overlay i
PendingFor(i) == { k \in 1..Len(frameQueue) : frameQueue[k].id = overlays[i].id }

\* C6: at any time at most one frame callback is pending for an annotation,
\* and between two consecutive display frames at most one position update is
\* applied to the store for that annotation.
C6_OnePerFrame ==
  \A i \in 1..Len(overlays) :
    /\ Cardinality(PendingFor(i)) <= 1
    /\ hist[i].commits <= 1

\* C6 for the annotations with an id of their own, and for each TextBox
\* instance whatever the ids
C6_OnePerFrameOwnId ==
  /\ \A i \in 1..Len(overlays) :
       UniqueId(overlays, i) => (Cardinality(PendingFor(i)) <= 1 /\ hist[i].commits <= 1)
  /\ \A i \in 1..Len(boxes) :
       Cardinality({ k \in 1..Len(frameQueue) : frameQueue[k].box = i }) <= 1

-----------------------------------------------------------------------------
(* Keyboard commands, checked under Spec *)

\* the overlay a paste step appended
Pasted == overlays'[Len(overlays) + 1]

\* C7: paste with a clipboard snapshot at (x, y) appends exactly one new
\* annotation at (x + 2, y + 2) whose id differs from every id already in the
\* store, whose isNew flag is true and whose pageNumber, text, fontSize,
\* fontFamily and color are the snapshot's; it selects that annotation and
\* leaves the clipboard and every annotation that existed unchanged.
C7_PasteAppendsCopy ==
  [][ (KeyPaste /\ clipboard # << >> /\ ClipboardKeysActive(build, boxes))
        => /\ Len(overlays') = Len(overlays) + 1
           /\ Pasted.x = clipboard[1].x + 2
           /\ Pasted.y = clipboard[1].y + 2
           /\ Pasted.id \notin Ids(overlays)
           /\ Pasted.isNew = TRUE
           /\ Pasted.pageNumber = clipboard[1].pageNumber
           /\ Pasted.text = clipboard[1].text
           /\ Pasted.fontSize = clipboard[1].fontSize
           /\ Pasted.fontFamily = clipboard[1].fontFamily
           /\ Pasted.color = clipboard[1].color
           /\ selectedId' = Pasted.id
           /\ clipboard' = clipboard
           /\ \A i \in 1..Len(overlays) : overlays'[i] = overlays[i] ]_vars

\* C7 without the clause on the id: holds
C7_PasteAppendsCopyAnyId ==
  [][ (KeyPaste /\ clipboard # << >> /\ ClipboardKeysActive(build, boxes))
        => /\ Len(overlays') = Len(overlays) + 1
           /\ Pasted = [clipboard[1] EXCEPT !.id = Pasted.id, !.x = @ + 2, !.y = @ + 2,
                                            !.isNew = TRUE]
           /\ selectedId' = Pasted.id
           /\ clipboard' = clipboard
           /\ \A i \in 1..Len(overlays) : overlays'[i] = overlays[i] ]_vars

C9_NoClipboardKeysWhileEditing ==
  [][ (TextEntryFocused(boxes) /\ (KeyCopy \/ KeyPaste))
        => UNCHANGED <<clipboard, overlays, selectedId>> ]_vars

\* C10: Delete or Backspace with an annotation selected and no textarea focused
\* removes the selected annotation (and nothing else) from the store and sets
\* the selection to none; with a textarea focused it changes neither the store
\* nor the selection.
C10_KeyboardDelete ==
  /\ [][ (KeyDelete /\ selectedId # NoId /\ ~TextEntryFocused(boxes))
           => /\ selectedId \notin Ids(overlays')
              /\ overlays' = SelectSeq(overlays, LAMBDA o : o.id # selectedId)
              /\ selectedId' = NoId ]_vars
  /\ [][ (KeyDelete /\ TextEntryFocused(boxes))
           => UNCHANGED <<overlays, selectedId>> ]_vars

\* the delete command has just removed the selected one of two annotations
C10_Witness ==
  /\ lastKey = "Delete"
  /\ selectedId = NoId
  /\ Len(overlays) = 1

-----------------------------------------------------------------------------
(* Selection, document replacement and ids, checked under Spec *)

\* C11: in every reachable state the selection is none or the id of an
\* annotation in the store; deleting the selected annotation with its remove
\* button (as with the keyboard, C10) clears the selection.
C11_SelectionInStore ==
  /\ [](selectedId = NoId \/ selectedId \in Ids(overlays))
  /\ [][ \A i \in 1..Len(boxes) :
           (RemoveButton(i) /\ overlays[i].id = selectedId) => selectedId' = NoId ]_vars

\* C12: when the load of a new source document finishes, the store is empty
\* and the selection is none, whatever they were before.
C12_LoadClears ==
  [][ (\E doc \in LoadDocuments : LoadPdf(doc))
        => (overlays' = << >> /\ selectedId' = NoId) ]_vars

\* The half of C12 on the store, and the whole of it in part_000: holds
C12_LoadClearsStore ==
  [][ (\E doc \in LoadDocuments : LoadPdf(doc))
        => (overlays' = << >> /\ (build = "standalone" => selectedId' = NoId)) ]_vars

\* C13: a select gesture on an annotation that is not in Editing (pointer-down
\* on its body, then pointer-up and the click on the same annotation) leaves
\* that annotation selected and creates or deletes no annotation.
C13_SelectGesture ==
  [][ \A i \in 1..Len(boxes) :
        (boxes[i].isDragging /\ MouseUp(TRUE))
          => (selectedId' = overlays[i].id /\ Len(overlays') = Len(overlays)) ]_vars

\* The pointer-down of the gesture alone does select the annotation, and a
\* pointer-up whose click does not reach the editor keeps it selected: holds
C13_PointerDownSelects ==
  /\ [][ \A i \in 1..Len(boxes), c \in DownAt :
           BoxMouseDown(i, c, c)
             => (selectedId' = overlays[i].id /\ Len(overlays') = Len(overlays)) ]_vars
  /\ [][ MouseUp(FALSE) => (selectedId' = selectedId /\ overlays' = overlays) ]_vars

\* C14: the ids of the annotations in the store are pairwise distinct in every
\* reachable state, for every sequence of place and paste commands, several
\* within one clock millisecond included.
C14_UniqueIds ==
  \A i, j \in 1..Len(overlays) : overlays[i].id = overlays[j].id => i = j

-----------------------------------------------------------------------------
(* Updates of the store *)

\* the update records the call sites of onUpdate build: a drag callback's
\* { x, y }, the textarea's { text, isNew: false }, the toolbar's
\* { fontFamily } and { fontSize }
UpdateShapes(o) ==
  { DragUpdate([x |-> 0, y |-> 0, startX |-> o.x, startY |-> o.y], c, c, dims) :
      c \in {-1000, 0, 50, 1000} }
  \cup { [text |-> t, isNew |-> FALSE] : t \in {<< >>, <<"H", "i">>} }
  \cup { [fontFamily |-> FONTS[k]] : k \in 1..Len(FONTS) }
  \cup { [fontSize |-> SteppedFontSize(o.fontSize, up)] : up \in BOOLEAN }

\* the ids an update can carry that no annotation of the store has
StaleIds == (0..(MaxClock + 3)) \ Ids(overlays)

\* C15: an update addressed to an id that is no longer in the store (a drag
\* frame callback or an edit commit arriving after the annotation was
\* deleted) is a silent no-op: a display frame whose callbacks all address
\* ids that are gone leaves the store, the selection and the clipboard
\* unchanged, and so does every update the call sites can build.
C15_StaleUpdateNoOp ==
  /\ [][ (FrameTick /\ \A k \in 1..Len(frameQueue) : frameQueue[k].id \notin Ids(overlays))
           => UNCHANGED <<overlays, selectedId, clipboard>> ]_vars
  /\ [][ FrameTick
           => \A i \in 1..Len(overlays) :
                (\A k \in 1..Len(frameQueue) : frameQueue[k].id # overlays[i].id)
                  => (Len(overlays') = Len(overlays) /\ overlays'[i] = overlays[i]) ]_vars
  /\ [](\A id \in StaleIds : \A u \in UpdateShapes(DragBase) :
          UpdateOverlay(overlays, id, u) = overlays)

\* a display frame has run the callbacks of a drag whose annotation had been
\* deleted from the keyboard: the initial stores are not empty, a store empties
\* by the delete command only, and in an empty store nothing but a display
\* frame resets lastKey
C15_Witness ==
  /\ overlays = << >>
  /\ frameQueue = << >>
  /\ lastKey = NoKey
  /\ selectedId = NoId

IdPage(o) == <<o.id, o.pageNumber>>

IdPages(ovs) == [ i \in 1..Len(ovs) |-> IdPage(ovs[i]) ]

\* C16: the id and the pageNumber of an annotation never change between its
\* creation and its deletion.  A step that deletes nothing leaves the id and
\* the pageNumber of every annotation as they were (a paste appends behind
\* them); a step that deletes leaves those of the remaining annotations, in
\* order; and no update a call site can build (drag, edit commit, font family,
\* font size) changes either field.
C16_IdAndPageImmutable ==
  /\ [][ Len(overlays') >= Len(overlays)
           => \A i \in 1..Len(overlays) : IdPage(overlays'[i]) = IdPage(overlays[i]) ]_vars
  /\ [][ Len(overlays') < Len(overlays)
           => \/ overlays' = << >>
              \/ \E id \in Ids(overlays) :
                   IdPages(overlays') = IdPages(SelectSeq(overlays, LAMBDA o : o.id # id)) ]_vars
  /\ [](\A i \in 1..Len(overlays) : \A u \in UpdateShapes(overlays[i]) :
          IdPages(UpdateOverlay(overlays, overlays[i].id, u)) = IdPages(overlays))

\* an annotation created at clock 1 on page 1 has been edited, restyled,
\* copied and pasted, and still has its id and its page
C16_Witness ==
  /\ Len(overlays) = 2
  /\ overlays[1].id = 1 /\ overlays[1].pageNumber = 1
  /\ overlays[1].text = <<"H", "i">> /\ overlays[1].isNew = FALSE
  /\ overlays[1].fontFamily = "Courier"
  /\ clipboard = << overlays[1] >>
  /\ overlays[2].id = 2
  /\ overlays[2].x = overlays[1].x + PasteDelta

-----------------------------------------------------------------------------
(* Placing and deleting on the pages of a two-page document: SpecPages *)

PageClickXs == {0, 40, 200}   \* pointer offsets of a place click into the 200 x 200 page box
PageClickYs == {100, 199}

InitPages ==
  /\ build \in Builds
  /\ lastKey = NoKey
  /\ clock = 1
  /\ overlays = << >>
  /\ boxes = << >>
  /\ hist = << >>
  /\ selectedId = NoId
  /\ clipboard = << >>
  /\ frameQueue = << >>
  /\ dims = [width |-> 200, height |-> 200]
  /\ pages = << [width |-> 612, height |-> 792], [width |-> 842, height |-> 595] >>
  /\ exportOut = << >>
  /\ app = AppShowing(pages)

NextPages ==
  \/ Tick
  \/ ClearClick
  \/ \E p \in Pages, ox \in PageClickXs, oy \in PageClickYs : PlaceClick(p, ox, oy)
  \/ \E i \in 1..Len(boxes) : Blur(i)
  \/ \E i \in 1..Len(boxes) : RemoveButton(i)
  \/ KeyDelete

SpecPages == InitPages /\ [][NextPages]_vars

\* the store once the textareas that lose the focus to a pointer-down have
\* committed their edits (C20)
AfterBlur == BlurAll(build, overlays, boxes).overlays

\* overlay i is deleted in this step, by its remove button or from the keyboard
Deleting(i) ==
  \/ RemoveButton(i)
  \/ KeyDelete /\ DeleteActive(selectedId, boxes) /\ selectedId = overlays[i].id

\* C17: page isolation.  The per-page query for page p returns exactly the
\* annotations whose pageNumber is p, in store order, and deleting an
\* annotation on page p leaves the per-page result of every other page
\* unchanged.
C17_PageIsolation ==
  /\ [](\A p \in Pages : ByPage(overlays, p) = SelectSeq(overlays, LAMBDA o : o.pageNumber = p))
  /\ [][ \A i \in 1..Len(overlays) :
           Deleting(i)
             => \A q \in Pages \ {overlays[i].pageNumber} :
                  ByPage(overlays', q) = ByPage(AfterBlur, q) ]_vars

\* C17 for the deletion of an annotation with an id of its own: holds
C17_PageIsolationOwnId ==
  /\ [](\A p \in Pages : ByPage(overlays, p) = SelectSeq(overlays, LAMBDA o : o.pageNumber = p))
  /\ [][ \A i \in 1..Len(overlays) :
           (Deleting(i) /\ UniqueId(overlays, i))
             => \A q \in Pages \ {overlays[i].pageNumber} :
                  ByPage(overlays', q) = ByPage(AfterBlur, q) ]_vars

\* the overlay a place step appended
Placed == overlays'[Len(overlays) + 1]

\* C18: a click on empty page area when nothing is selected creates exactly
\* one annotation on that page at the click's fraction position with the field
\* defaults (text 'New Text', fontSize 18, fontFamily Helvetica, color
\* #000000), a new id and isNew = true, and selects it.
C18_PlaceCreates ==
  [][ \A p \in Pages, ox \in PageClickXs, oy \in PageClickYs :
        PlaceClick(p, ox, oy)
          => /\ Len(overlays') = Len(overlays) + 1
             /\ Placed.pageNumber = p
             /\ Placed.x = (ox * 100) \div dims.width
             /\ Placed.y = (oy * 100) \div dims.height
             /\ Placed.text = <<"N", "e", "w", " ", "T", "e", "x", "t">>
             /\ Placed.fontSize = 18
             /\ Placed.fontFamily = "Helvetica"
             /\ Placed.color = "#000000"
             /\ Placed.isNew = TRUE
             /\ Placed.id \notin Ids(overlays)
             /\ selectedId' = Placed.id ]_vars

\* C18 without the clause on the id: holds
C18_PlaceCreatesAnyId ==
  [][ \A p \in Pages, ox \in PageClickXs, oy \in PageClickYs :
        PlaceClick(p, ox, oy)
          => /\ Len(overlays') = Len(overlays) + 1
             /\ Placed = [ id |-> Placed.id, pageNumber |-> p,
                           x |-> (ox * 100) \div dims.width, y |-> (oy * 100) \div dims.height,
                           text |-> <<"N", "e", "w", " ", "T", "e", "x", "t">>,
                           fontSize |-> 18, fontFamily |-> "Helvetica",
                           color |-> "#000000", isNew |-> TRUE ]
             /\ selectedId' = Placed.id ]_vars

-----------------------------------------------------------------------------
(* Clearing the selection and committing an edit, checked under Spec *)

\* the fields of an annotation that an edit commit does not write
Unedited(o) == [ f \in (DOMAIN o) \ {"text", "isNew"} |-> o[f] ]

C20_BlurCommits ==
  /\ [][ \A i \in 1..Len(boxes) :
           Blur(i) => /\ ~boxes'[i].isEditing
                      /\ overlays'[i].text = boxes[i].tempText
                      /\ overlays'[i].isNew = FALSE ]_vars
  /\ [][ Len(overlays') = Len(overlays)
           => \A i \in 1..Len(boxes) :
                (boxes[i].isEditing /\ ~boxes'[i].isEditing)
                  => (overlays'[i].text = boxes[i].tempText /\ overlays'[i].isNew = FALSE) ]_vars
  /\ [][ Len(overlays') >= Len(overlays)
           => \A i \in 1..Len(overlays) :
                overlays[i].isNew = FALSE => overlays'[i].isNew = FALSE ]_vars
  /\ [][ Len(overlays') < Len(overlays)
           => \A j \in 1..Len(overlays') :
                overlays'[j].isNew = TRUE
                  => \E i \in 1..Len(overlays) :
                       overlays[i].id = overlays'[j].id /\ overlays[i].isNew = TRUE ]_vars

\* an annotation whose entered text was committed is in Editing once more,
\* and its isNew is still false
C20_Witness ==
  \E i \in 1..Len(overlays) :
    /\ overlays[i].text = <<"H", "i">>
    /\ overlays[i].isNew = FALSE
    /\ boxes[i].isEditing

-----------------------------------------------------------------------------
(* Pointer-downs that start no drag *)

\* C21: a pointer-down on an annotation that is editing, or on one of its
\* control buttons, starts no drag and changes neither the selection nor the
\* annotation's position; a box enters dragging only by a pointer-down on its
\* body while it is not editing
C21_DragOnlyFromBody ==
  [][ \A i \in 1..Len(boxes) :
        /\ (EditingMouseDown(i) \/ ButtonMouseDown(i)) =>
              /\ NoDrag(boxes')
              /\ selectedId' = selectedId
              /\ Len(overlays') = Len(overlays)
              /\ Pos(overlays'[i]) = Pos(overlays[i])
        /\ (Len(boxes') = Len(boxes) /\ ~boxes[i].isDragging /\ boxes'[i].isDragging) =>
              /\ ~boxes[i].isEditing
              /\ \E c \in DownAt : BoxMouseDown(i, c, c) ]_vars

\* a selected annotation away from the edge is being edited and no drag is under way:
\* both the pointer-down on its textarea and the one on its buttons can happen
C21_Witness ==
  \E i \in 1..Len(boxes) :
    /\ boxes[i].isEditing
    /\ selectedId = overlays[i].id
    /\ overlays[i].x > 0
    /\ NoDrag(boxes)
    /\ ~FocusPending(boxes)

-----------------------------------------------------------------------------
(* What export leaves out *)

\* the text is empty or all whitespace
Blank(t) == \A k \in 1..Len(t) : t[k] \in {" ", "\n", "\t"}

\* the annotation is on a page of the document
OnPage(o, pgs) == o.pageNumber \in 1..Len(pgs)

\* the annotations export has to draw, in store order
Drawable(ovs, pgs) == SelectSeq(ovs, LAMBDA o : OnPage(o, pgs) /\ ~Blank(o.text))

\* C22: an annotation whose text is empty or all whitespace gets no draw
\* instruction on export; it stays in the store, which export leaves as it
\* was; and every annotation with non-blank text on an existing page is drawn
C22_BlankTextNotDrawn ==
  exportOut # << >> =>
    LET r == exportOut[1]
    IN /\ overlays = r.store
       /\ \A j \in 1..Len(r.draws) : ~Blank(r.draws[j].src.text)
       /\ [ j \in 1..Len(r.draws) |-> r.draws[j].src ] = Drawable(r.store, r.pages)

\* an export ran on a store with an all-whitespace annotation on an existing
\* page next to one that was drawn
C22_Witness ==
  /\ exportOut # << >>
  /\ \E i \in 1..Len(overlays) :
       /\ overlays[i].text # << >>
       /\ Blank(overlays[i].text)
       /\ OnPage(overlays[i], pages)
  /\ Draws # {}

\* C23: an annotation whose page number is below 1 or above the page count is
\* skipped by export (no draw instruction, no error); every draw goes to the
\* page its annotation names, and each remaining annotation with text is
\* drawn once
C23_MissingPageSkipped ==
  exportOut # << >> =>
    LET r == exportOut[1]
        drawn(i) == { j \in 1..Len(r.draws) : r.draws[j].src = r.store[i] }
    IN /\ \A j \in 1..Len(r.draws) :
            /\ r.draws[j].page \in 1..Len(r.pages)
            /\ r.draws[j].page = r.draws[j].src.pageNumber
       /\ \A i \in 1..Len(r.store) :
            IF OnPage(r.store[i], r.pages)
            THEN ~Blank(r.store[i].text) => Cardinality(drawn(i)) = 1
            ELSE drawn(i) = {}

\* an export ran on a store with an annotation above the page range of a
\* two-page document and drew another one on the second page
C23_Witness ==
  /\ exportOut # << >>
  /\ Len(pages) = 2
  /\ \E i \in 1..Len(overlays) : overlays[i].pageNumber > Len(pages)
  /\ \E d \in Draws : d.page = 2

-----------------------------------------------------------------------------
(* Files, decodes and exports: SpecApp *)

AppClickXs == {306}         \* pointer offsets of a place click into the page box
AppClickYs == {396}
ClientWidths == {848, 1448} \* widths of the editor container after a resize

InitApp ==
  /\ build \in Builds
  /\ lastKey = NoKey
  /\ clock = 1
  /\ overlays = << >>
  /\ boxes = << >>
  /\ hist = << >>
  /\ selectedId = NoId
  /\ clipboard = << >>
  /\ frameQueue = << >>
  /\ dims = [width |-> 0, height |-> 0]
  /\ pages = << >>
  /\ exportOut = << >>
  /\ app = AppEmpty

\* The export effect runs with the render that made it due, before the next
\* event is handled
Idle == ~EffectDue

\* a run that ends while MaxRunning holds the effect back is let through
NextApp ==
  \/ ExportEffect
  \/ /\ EffectDue => Len(app.running) >= MaxRunning
     /\ \E k \in 1..Len(app.running), ok \in BOOLEAN : ExportFinish(k, ok)
  \/ Idle /\ \E d \in Documents : ChooseFile(d)
  \/ Idle /\ \E k \in 1..Len(app.loading) : DecodeOk(k)
  \/ Idle /\ \E k \in 1..Len(app.loading) : DecodeFail(k)
  \/ Idle /\ ExportClick
  \/ Idle /\ \E w \in ClientWidths : ScaleChange(w)
  \/ /\ Idle
     /\ Len(overlays) < MaxAppOverlays
     /\ \E pg \in Pages, ox \in AppClickXs, oy \in AppClickYs : PlaceClick(pg, ox, oy)
  \/ Idle /\ KeyCopy

SpecApp == InitApp /\ [][NextApp]_vars

\* the export run the step started, if it started one
Started == IF Len(app'.running) > Len(app.running)
           THEN << app'.running[Len(app'.running)] >> ELSE << >>

\* C24: when an export fails, the annotation store, the selection and the
\* clipboard are as before the export, the failure is reported once (never more
\* failure reports than export commands), and isExporting is off again, so the
\* export can be retried
C24_ExportFailureKeepsState ==
  /\ [](app.alerts <= app.triggerExport)
  /\ [][ \A k \in 1..Len(app.running) :
           ExportFinish(k, FALSE) =>
             /\ overlays' = overlays
             /\ selectedId' = selectedId
             /\ clipboard' = clipboard
             /\ app'.alerts = app.alerts + 1
             /\ ~app'.isExporting ]_vars

\* C24 without the modular PdfEditor's count of reports: holds
C24_ExportFailureKeepsStore ==
  /\ [](build # "modular" => app.alerts <= app.triggerExport)
  /\ [][ \A k \in 1..Len(app.running) :
           ExportFinish(k, FALSE) =>
             /\ overlays' = overlays
             /\ selectedId' = selectedId
             /\ clipboard' = clipboard
             /\ app'.alerts = app.alerts + 1
             /\ ~app'.isExporting ]_vars

\* C25: a failed decode of a newly chosen file creates no partial state: from
\* the choice of the file to the failure of its decode, the store, the
\* document shown and its page count stay as they were
C25_DecodeFailureKeepsState ==
  [][ ( \/ \E k \in 1..Len(app.loading) : DecodeFail(k)
        \/ \E d \in Documents : ChooseFile(d) ) =>
        /\ overlays' = overlays
        /\ boxes' = boxes
        /\ app'.pdfDoc = app.pdfDoc
        /\ app'.numPages = app.numPages
        /\ pages' = pages ]_vars

\* the decode of a replacement file has failed: the first document is still
\* shown, with the annotation placed on it
C25_Witness ==
  /\ ~Decodable(app.pdfInfo)
  /\ app.loading = << >>
  /\ app.pdfDoc # NoDoc
  /\ app.numPages = Len(pages)
  /\ overlays # << >>

\* C26: no export begins until the decode of the current source document has
\* completed: the bytes a starting export run gets are those of the document
\* that is decoded and shown, and no decode is under way
C26_ExportAfterDecode ==
  [][ Started # << >> =>
        /\ Started[1].doc = app.pdfDoc
        /\ app.loading = << >> ]_vars

\* What holds of an export start: a file has been chosen
C26_ExportAfterChoice ==
  [][ Started # << >> => Started[1].doc # NoDoc /\ Started[1].doc = app.pdfInfo ]_vars

-----------------------------------------------------------------------------
(* Sizes and positions under the toolbar and the clipboard: SpecStyle *)

\* where the annotation is when the editor is looked at: dragged into the
\* bottom right corner
StylePositions == { <<MaxX, MaxY>> }
\* its size then: as created, or after size commands down or up to the limit
StyleSizes == {MinFontSize, DefaultFontSize, MaxFontSize}
StyleClickXs == {200}   \* a place click on the bottom right corner of the page
StyleClickYs == {200}

InitStyle ==
  /\ build \in Builds
  /\ lastKey = NoKey
  /\ clock = 2
  /\ overlays \in { << [DragBase EXCEPT !.id = 1, !.x = v[1], !.y = v[2], !.fontSize = n,
                                        !.isNew = FALSE] >> :
                      v \in StylePositions, n \in StyleSizes }
  /\ boxes = [ i \in 1..Len(overlays) |-> MountBox(overlays[i]) ]
  /\ hist = [ i \in 1..Len(overlays) |-> NoHist ]
  /\ selectedId = 1
  /\ clipboard = << >>
  /\ frameQueue = << >>
  /\ dims = [width |-> 200, height |-> 200]
  /\ pages = << [width |-> 612, height |-> 792] >>
  /\ exportOut = << >>
  /\ app = AppShowing(pages)

NextStyle ==
  \/ /\ \E i \in 1..Len(overlays), n \in StyleSizes, up \in BOOLEAN :
          /\ overlays[i].fontSize - n < MaxSizeSteps
          /\ n - overlays[i].fontSize < MaxSizeSteps
          /\ FontSizeStep(i, up)
  \/ \E i \in 1..Len(boxes) : ButtonMouseDown(i)
  \/ ClearClick
  \/ \E pg \in Pages, ox \in StyleClickXs, oy \in StyleClickYs : PlaceClick(pg, ox, oy)
  \/ FocusEffect
  \/ KeyCopy
  \/ /\ clipboard # << >> => clipboard[1].y + PasteDelta <= MaxPastedY
     /\ KeyPaste
  \/ KeyDelete

SpecStyle == InitStyle /\ [][NextStyle]_vars

\* the size a size command leaves
Stepped(size, up) ==
  IF up THEN (IF size >= 72 THEN 72 ELSE size + 1)
  ELSE (IF size <= 8 THEN 8 ELSE size - 1)

\* C28: every annotation in the store has fontSize in [8, 72] in every
\* reachable state: creation assigns 18, a size command moves the size of the
\* annotation it is given on by one and clamps to [8, 72] (leaving the sizes
\* under other ids alone), and paste copies the size of the snapshot
C28_FontSizeInRange ==
  /\ [](\A i \in 1..Len(overlays) : overlays[i].fontSize \in 8..72)
  /\ [][ /\ \A i \in 1..Len(overlays), up \in BOOLEAN :
              FontSizeStep(i, up) =>
                /\ Len(overlays') = Len(overlays)
                /\ overlays'[i].fontSize = Stepped(overlays[i].fontSize, up)
                /\ \A j \in 1..Len(overlays) :
                     overlays[j].id # overlays[i].id =>
                       overlays'[j].fontSize = overlays[j].fontSize
         /\ (\E pg \in Pages, ox \in StyleClickXs, oy \in StyleClickYs : PlaceClick(pg, ox, oy)) =>
              overlays'[Len(overlays')].fontSize = 18
         /\ (KeyPaste /\ clipboard # << >> /\ ClipboardKeysActive(build, boxes)) =>
              overlays'[Len(overlays')].fontSize = clipboard[1].fontSize ]_vars

\* a copy pasted at the upper limit has been stepped down by one, next to its
\* source still at the limit
C28_Witness ==
  \E i, j \in 1..Len(overlays) :
    /\ overlays[i].fontSize = MaxFontSize
    /\ overlays[j].fontSize = MaxFontSize - 1

InRange(ovs) == \A i \in 1..Len(ovs) : ovs[i].x \in 0..100 /\ ovs[i].y \in 0..100

\* C29: every annotation in the store has its x and y fraction in [0, 100] in
\* every reachable state
C29_FractionsInRange == InRange(overlays)

\* What holds: only a paste takes a store out of the range
C29_OnlyPasteLeavesRange ==
  [][ (InRange(overlays) /\ ~InRange(overlays')) =>
        (KeyPaste /\ clipboard # << >> /\ Len(overlays') = Len(overlays) + 1) ]_vars

-----------------------------------------------------------------------------
(* The coordinate transform and its inverse *)

\* the inverse map of the round trip, (100 * xU / W, 100 * (H - yU) / H), on
\* output units kept over 100
FractionFromOutputUnit(xU100, yU100, page) ==
  [ x |-> xU100 \div page.width,
    y |-> (100 * page.height - yU100) \div page.height ]

\* C30: round trip of the coordinate transform: the output-unit point of an
\* annotation, taken back to a fraction position by the inverse map and
\* forward again, is the same output-unit point, for every fraction position
\* and page box exported
C30_RoundTrip ==
  \A d \in Draws :
    LET page == exportOut[1].pages[d.page]
        f == FractionFromOutputUnit(d.x100, d.y100, page)
    IN /\ d.x100 = OutputX100(d.src.x, page.width)
       /\ d.y100 = OutputY100(d.src.y, page.height)
       /\ OutputX100(f.x, page.width) = d.x100
       /\ OutputY100(f.y, page.height) = d.y100

\* an export drew annotations off the centre of the page, on both page boxes
C30_Witness ==
  /\ \E d \in Draws : d.src.x # 50 /\ d.src.y # 50 /\ d.y100 # d.src.y * 792
  /\ \E d \in Draws : d.page = 2

-----------------------------------------------------------------------------
(* Entering Editing and Dragging *)

\* C31: an annotation created by a place click or by paste starts directly in
\* Editing (its TextBox mounts with isNew true), and a mounted TextBox that is
\* not editing enters Editing only by a double-click on it
C31_EditingEntry ==
  [][ /\ Len(boxes') = Len(boxes) + 1 =>
           /\ overlays'[Len(overlays')].isNew
           /\ boxes'[Len(boxes')].isEditing
           /\ \/ \E pg \in Pages, ox \in ClickXs, oy \in ClickYs : PlaceClick(pg, ox, oy)
              \/ KeyPaste
      /\ \A i \in 1..Len(boxes) :
           (Len(boxes') = Len(boxes) /\ ~boxes[i].isEditing /\ boxes'[i].isEditing) =>
             (~overlays[i].isNew /\ DoubleClick(i)) ]_vars

\* a committed annotation is in Editing (by a double-click) next to one that
\* was just created and is in Editing from its mount
C31_Witness ==
  \E i, j \in 1..Len(boxes) :
    /\ boxes[i].isEditing /\ ~overlays[i].isNew
    /\ boxes[j].isEditing /\ overlays[j].isNew

\* every dragging box belongs to the selected annotation
DraggingSelected(bxs, ovs, sel) ==
  \A i \in 1..Len(bxs) : bxs[i].isDragging => sel = ovs[i].id

\* C32: whenever an annotation is in Dragging it is the selected annotation
C32_DraggingIsSelected == DraggingSelected(boxes, overlays, selectedId)

\* What holds: a drag starts on the selected annotation, and only a paste
\* takes the selection from an annotation that is being dragged
C32_OnlyPasteDeselects ==
  [][ (DraggingSelected(boxes, overlays, selectedId)
         /\ ~DraggingSelected(boxes', overlays', selectedId'))
        => (KeyPaste /\ clipboard # << >> /\ ~NoDrag(boxes)) ]_vars

\* a display frame applies a position update to overlay i
CommitsTo(i) == FrameTick /\ hist'[i].commits > 0

\* a TextBox of the id of overlay i is in Dragging
DragUnderWay(i) ==
  \E j \in 1..Len(overlays) : overlays[j].id = overlays[i].id /\ boxes[j].isDragging

\* C33: in the TextBox of src/index.tsx no position update is committed for an
\* annotation after the pointer-up that ended its drag: every position commit
\* happens while the annotation is in Dragging
C33_NoCommitAfterPointerUp ==
  [][ build = "index" =>
        \A i \in 1..Len(overlays) : CommitsTo(i) => DragUnderWay(i) ]_vars

\* What holds: the TextBox of the modular application and of part_000, whose
\* handleEnd cancels the pending callback, commits while Dragging only
C33_NoCommitAfterCancellingEnd ==
  [][ build # "index" =>
        \A i \in 1..Len(overlays) : CommitsTo(i) => DragUnderWay(i) ]_vars

-----------------------------------------------------------------------------
\* Drags whose pointer comes back to where it went down

\* the start positions: inside the page; at the top right, as placed by a
\* click there (handlePageClick stores every fraction in [0, 100]); and below
\* the clamp range, as stored by the paste of an annotation at y = 100
ReturnStores ==
  { << DragBase >>,
    << [DragBase EXCEPT !.x = 97, !.y = 1] >>,
    << PastedOverlay([DragBase EXCEPT !.x = 48, !.y = MaxY], 2) >> }

ReturnMoveTo == DragDownAt \cup {140}

InitReturn ==
  /\ build \in Builds
  /\ lastKey = NoKey
  /\ clock = 3
  /\ overlays \in { [ i \in 1..Len(st) |-> [st[i] EXCEPT !.isNew = FALSE] ] : st \in ReturnStores }
  /\ boxes = [ i \in 1..Len(overlays) |-> MountBox(overlays[i]) ]
  /\ hist = [ i \in 1..Len(overlays) |-> NoHist ]
  /\ selectedId = NoId
  /\ clipboard = << >>
  /\ frameQueue = << >>
  /\ dims \in PageBoxes
  /\ pages = << [width |-> 612, height |-> 792] >>
  /\ exportOut = << >>
  /\ app = AppShowing(pages)

NextReturn ==
  \/ \E i \in 1..Len(boxes), c \in DragDownAt : BoxMouseDown(i, c, c)
  \/ \E c \in ReturnMoveTo : MouseMove(c, c)
  \/ FrameTick
  \/ \E click \in BOOLEAN : MouseUp(click)

SpecReturn == InitReturn /\ [][NextReturn]_vars

\* box i has an ended drag whose last pointer-move was at the pointer-down
\* position, and the callback of that move has run
Returned(i) ==
  /\ DragSettled(i)
  /\ hist[i].lastMove[1] = [x |-> hist[i].down[1].x, y |-> hist[i].down[1].y]
  /\ hist[i].fired # << >>
  /\ [x |-> hist[i].fired[1].x, y |-> hist[i].fired[1].y] = hist[i].lastMove[1]

StartPos(i) == [x |-> hist[i].down[1].startX, y |-> hist[i].down[1].startY]

\* C34: a drag whose pointer returns to the position where it went down leaves
\* the annotation's stored position equal to its position at drag start, for
\* every reachable start position, those a place click or a paste produced
\* included.
C34_ReturnedDragKeepsPosition ==
  \A i \in 1..Len(overlays) : Returned(i) => Pos(overlays[i]) = StartPos(i)

\* What holds: the returned drag stores the clamped start position, which is
\* the start position when that lies in [0, 95] x [2, 100]
C34_ReturnedDragStoresClampedStart ==
  \A i \in 1..Len(overlays) :
    Returned(i) =>
      Pos(overlays[i]) = [x |-> ClampX(StartPos(i).x), y |-> ClampY(StartPos(i).y)]

-----------------------------------------------------------------------------
\* Export starts and export commands

\* the step is an activation of the export button
Activation == app'.triggerExport = app.triggerExport + 1

\* C35: an export starts only in response to an activation of the export
\* trigger and exactly once per activation: never more runs started than
\* activations, every start is the activation's step or follows an activation
\* not yet served, no step that changes the store starts a run, and when no
\* effect is due every activation has been served.
C35_OneExportPerActivation ==
  /\ [](app.started <= app.triggerExport)
  /\ [](~EffectDue => app.started >= app.triggerExport)
  /\ [][ Started # << >> =>
           /\ Activation \/ app.started < app.triggerExport
           /\ overlays' = overlays ]_vars

\* What holds: outside the modular PdfEditor, the runs started are the
\* activations, each started in the activation's step; in every build a start
\* follows at least one activation and leaves the store alone
C35_OneExportPerActivationUnlessModular ==
  /\ [](build # "modular" => app.started = app.triggerExport)
  /\ [](app.started > 0 => app.triggerExport > 0)
  /\ [][ Started # << >> =>
           /\ build # "modular" => Activation
           /\ overlays' = overlays ]_vars

\* C36: whenever an export starts, the bytes it exports and the annotations it
\* composites belong to the same document: the snapshot is the store, whose
\* annotations were all placed or pasted on the decoded document shown (a decode
\* empties the store), and the bytes are those of that document, also when a
\* replacement file has been chosen and its decode is under way or has failed.
C36_BytesAndAnnotationsOfOneDocument ==
  [][ Started # << >> =>
        /\ Started[1].store = overlays
        /\ Started[1].store # << >> => Started[1].doc = app.pdfDoc ]_vars

\* What holds: the snapshot is the store, and its annotations are of the
\* document exported when the file chosen last has been decoded and, in
\* part_000, no older decode finished after it
C36_OneDocumentOnceDecoded ==
  [][ Started # << >> =>
        /\ Started[1].store = overlays
        /\ (app.loading = << >> /\ Decodable(app.pdfInfo) /\ build # "standalone")
             => Started[1].doc = app.pdfDoc ]_vars

-----------------------------------------------------------------------------
\* Decodes that finish out of order

\* the decode k under way is of a file chosen before the current one: a later
\* decode is under way, or the file is not the one chosen last
Stale(k) == k < Len(app.loading) \/ app.loading[k] # app.pdfInfo

\* C37: a decode that completes after a newer source document has been chosen
\* changes nothing: only the decode of the file chosen last sets the document
\* shown and the page count and empties the store.
C37_StaleDecodeChangesNothing ==
  [][ \A k \in 1..Len(app.loading) :
        (Stale(k) /\ (DecodeOk(k) \/ DecodeFail(k))) =>
          /\ overlays' = overlays
          /\ app'.pdfDoc = app.pdfDoc
          /\ app'.numPages = app.numPages
          /\ pages' = pages ]_vars

\* What holds: with the `active` flag of loadPdf no stale decode can complete,
\* and in every build a completing decode that sets the document is of a file
\* that was chosen
C37_NoStaleDecodeWithActiveFlag ==
  /\ [](build # "standalone" => \A k \in 1..Len(app.loading) : ~Stale(k))
  /\ [][ \A k \in 1..Len(app.loading) :
           (DecodeOk(k) /\ ~Stale(k)) =>
             /\ app'.pdfDoc = app.pdfInfo
             /\ overlays' = << >> ]_vars

-----------------------------------------------------------------------------
\* Page numbers and the document shown

\* Choosing, decoding, annotating, copying and pasting, with no export
NextReplace ==
  \/ \E d \in Documents : ChooseFile(d)
  \/ \E k \in 1..Len(app.loading) : DecodeOk(k)
  \/ \E k \in 1..Len(app.loading) : DecodeFail(k)
  \/ /\ Len(overlays) < MaxAppOverlays
     /\ \E pg \in Pages, ox \in AppClickXs, oy \in AppClickYs : PlaceClick(pg, ox, oy)
  \/ KeyCopy
  \/ /\ clipboard # << >>
     /\ clipboard[1].x + PasteDelta <= MaxReplacePastedX
     /\ KeyPaste
  \/ FocusEffect
  \/ KeyDelete

SpecReplace == InitApp /\ [][NextReplace]_vars

\* C38: in every reachable state every annotation in the store has a page
\* number between 1 and the page count of the document currently loaded, also
\* after a document replacement followed by the paste of a clipboard snapshot
\* taken on the previous document.
C38_PageNumberWithinDocument ==
  \A i \in 1..Len(overlays) : overlays[i].pageNumber \in 1..app.numPages

\* the step appended the copy of the clipboard snapshot
PasteStep ==
  /\ clipboard # << >>
  /\ overlays' = Append(overlays, PastedOverlay(clipboard[1], clock))

\* What holds: every step but a paste keeps the page numbers within the
\* document loaded
C38_PageNumberWithinDocumentUnlessPasted ==
  [][ (C38_PageNumberWithinDocument /\ ~PasteStep) => C38_PageNumberWithinDocument' ]_vars

-----------------------------------------------------------------------------
\* The exporting flag

\* C39: the exporting flag tracks the exports in flight: it is never false
\* while an export run is in flight, it is true from the step that starts a
\* run, and the step that ends a run resets it.
C39_FlagTracksExports ==
  /\ [](app.running # << >> => app.isExporting)
  /\ [][ Started # << >> => app'.isExporting ]_vars
  /\ [][ \A k \in 1..Len(app.running), ok \in BOOLEAN :
           ExportFinish(k, ok) => ~app'.isExporting ]_vars

\* What holds: outside the modular PdfEditor at most one run is in flight and
\* the flag is true exactly while it is; in every build a start sets the flag
\* and an end resets it
C39_FlagTracksExportsUnlessModular ==
  /\ [](build # "modular" =>
          /\ Len(app.running) <= 1
          /\ app.isExporting <=> app.running # << >>)
  /\ [][ Started # << >> => app'.isExporting ]_vars
  /\ [][ \A k \in 1..Len(app.running), ok \in BOOLEAN :
           ExportFinish(k, ok) => ~app'.isExporting ]_vars

=============================================================================
